---- MODULE Spec2Model ----
(***************************************************************************)
(* Time-series analysis engine of the Vur backend:                         *)
(*   backend/app/services/timeseries_analysis_service.py                   *)
(*   backend/app/api/v1/endpoints/datasets_backup.py (analyze_timeseries)  *)
(*                                                                         *)
(* Numbers.  The service computes in float64.  The model computes the same *)
(* formulas in exact rational arithmetic over integer-valued series, so a  *)
(* model value stands for the float the code returns up to rounding.  One  *)
(* rounding effect changes control flow and is modelled explicitly:        *)
(* np.mean of a constant series whose value is not exactly representable   *)
(* (0.3, 1.1, ...) differs from that value in the last place, so that      *)
(* every deviation (x - mean) is the same tiny non-zero number.  The flag  *)
(* mean_inexact says whether the series is such a series.                  *)
(***************************************************************************)
EXTENDS Integers, Sequences, FiniteSets, TLC

VARIABLES
    data,          \* the cleaned numeric series handed to an estimator
    max_lags,      \* the requested max_lags
    mean_inexact,  \* np.mean(data) is not exactly the value of a constant series
    fault,         \* where an unexpected exception is raised inside an estimator
    op,            \* the estimator that was called ("none" before the call)
    res,           \* what the call returned
    pc,            \* analyze_timeseries / run_complete_analysis: position of each call
    request,       \* per call: the request (cleaned column, sample_size, max_lags)
    target_data,   \* per call: the series handed to run_complete_analysis
    submitted,     \* per call: how many of the six tasks were given to the executor
    awaiting,      \* per call: index of the task whose future is awaited
    future,        \* per call and task: state and outcome of the executor future
    queue,         \* ThreadPoolExecutor work queue (FIFO of <<call, task>>)
    ts_results,    \* per call: what run_complete_analysis returned
    response,      \* per call: the HTTP outcome of analyze_timeseries
    np_random,     \* the process-wide numpy generator (np.random): seed, numbers drawn
    oracle,        \* repeated calls: the real-valued functions the model does not compute
    earlier        \* repeated calls: what the first call of the estimator returned

vars == << data, max_lags, mean_inexact, fault, op, res,
           pc, request, target_data, submitted, awaiting, future, queue,
           ts_results, response, np_random, oracle, earlier >>

estVars == << data, max_lags, mean_inexact, fault, op, res, np_random, oracle, earlier >>
runVars == << pc, request, target_data, submitted, awaiting, future, queue,
             ts_results, response >>

\* Python's None; an Optional[int] that is present is kept as a one-field record
None == [none |-> TRUE]

(***************************************************************************)
(* Bounds of the model                                                     *)
(***************************************************************************)
MaxShort == 10      \* every 0/1 series up to this length is an input
MaxLen == 65        \* longest input series (constant / alternating families)
MaxLagsReq == 3     \* largest requested max_lags
MaxMI == 1          \* mutual-information estimates are levels 0..MaxMI
NumCalls == 1       \* concurrent analyze_timeseries requests
MaxRunLen == 11     \* longest cleaned column of a request
MaxOddLen == 13     \* longest alternating series of odd length
MaxMILen == 24      \* longest series of the mutual-information inputs
MaxMILags == 6      \* largest max_lags of the mutual-information inputs
MaxBlockLen == 26   \* longest square-wave series
PeriodicLen == 500  \* length of the long periodic series
PeriodicPeriod == 20   \* its period
NumPoolCalls == 2   \* calls that share the pool at the same time
MaxRawLen == 3      \* longest raw column handed to _safe_float_conversion
MaxRows == 3        \* most rows of a small frame
MaxCols == 2        \* most columns of a frame
MaxMissing == 1     \* most missing cells at the head of a column of a small frame

(***************************************************************************)
(* Program constants                                                       *)
(***************************************************************************)
MinLenACF == 10
MinLenPACF == 10
MinLenMI == 20
MinLenHurst == 50
MinLenStationarity == 20
MinLenSeasonality == 20
MISeed == 42          \* mutual_info_regression(..., random_state=42)
SampleSeed == 42      \* np.random.seed(42) before the subsampling
LagDivisor == 4
MaxWorkers == 4

(***************************************************************************)
(* Exact arithmetic helpers                                                *)
(***************************************************************************)
Abs(x) == IF x < 0 THEN -x ELSE x
Min(a, b) == IF a < b THEN a ELSE b
Max(a, b) == IF a > b THEN a ELSE b

RECURSIVE GCD(_, _)
GCD(a, b) == IF b = 0 THEN a ELSE GCD(b, a % b)

\* the rational p/q in lowest terms with a positive denominator
Rat(p, q) ==
    LET g == GCD(Abs(p), Abs(q))
        s == IF q < 0 THEN -1 ELSE 1
    IN  [num |-> s * (p \div g), den |-> s * (q \div g)]

RZero == [num |-> 0, den |-> 1]
ROne == [num |-> 1, den |-> 1]
RNeg(a) == [num |-> -a.num, den |-> a.den]

RAdd(a, b) ==
    LET g == GCD(a.den, b.den)
        l == (a.den \div g) * b.den
    IN  Rat(a.num * (l \div a.den) + b.num * (l \div b.den), l)

RMul(a, b) ==
    LET g1 == GCD(Abs(a.num), b.den)
        g2 == GCD(Abs(b.num), a.den)
    IN  Rat((a.num \div g1) * (b.num \div g2), (a.den \div g2) * (b.den \div g1))

RInv(a) == IF a.num < 0 THEN [num |-> -a.den, den |-> -a.num]
                        ELSE [num |-> a.den, den |-> a.num]

\* x/y > z/w for x, z >= 0 and y, w > 0, by the Euclidean expansion of both
\* sides (no product is formed)
RECURSIVE FracGT(_, _, _, _)
FracGT(x, y, z, w) ==
    LET i1 == x \div y
        i2 == z \div w
        r1 == x % y
        r2 == z % w
    IN  IF i1 # i2 THEN i1 > i2
        ELSE IF r1 = 0 THEN FALSE
        ELSE IF r2 = 0 THEN TRUE
        ELSE FracGT(w, r2, y, r1)

RECURSIVE SumRange(_, _, _)
\* sum of f[lo..hi], by halves
SumRange(f, lo, hi) ==
    IF lo > hi THEN 0
    ELSE IF lo = hi THEN f[lo]
    ELSE LET mid == (lo + hi) \div 2
         IN  SumRange(f, lo, mid) + SumRange(f, mid + 1, hi)

\* sum of f[1..k]
SumTo(f, k) == SumRange(f, 1, k)

(***************************************************************************)
(* Series                                                                  *)
(***************************************************************************)
Values == {0, 1}

IsConstant(x) == \A i \in 1..Len(x) : x[i] = x[1]

ConstSeries(n, v) == [i \in 1..n |-> v]
AltSeries(n, first) == [i \in 1..n |-> (first + i - 1) % 2]

\* every series over Values of length 1..MaxShort
ShortSeries == UNION { [1..n -> Values] : n \in 1..MaxShort }

\* longer series: constant ones of every length, alternating ones of even
\* length, and alternating ones of odd length up to MaxOddLen
LongSeries ==
    { ConstSeries(n, v) : n \in (MaxShort + 1)..MaxLen, v \in Values }
    \cup { AltSeries(2 * h, v) : h \in { k \in 1..MaxLen : 2 * k > MaxShort /\ 2 * k <= MaxLen },
                                v \in Values }
    \cup { AltSeries(n, v) : n \in { m \in (MaxShort + 1)..MaxOddLen : m % 2 = 1 },
                            v \in Values }

\* the triangle wave 0, 1, 2, 1, 0, 1, 2, 1, ...
TriangleSeries(n) == [i \in 1..n |-> IF (i - 1) % 4 = 3 THEN 1 ELSE (i - 1) % 4]

TriangleInputs == { TriangleSeries(MaxShort + 1) }

InputSeries == ShortSeries \cup LongSeries \cup TriangleInputs

RECURSIVE IsPow2(_)
IsPow2(m) == m = 1 \/ (m > 1 /\ m % 2 = 0 /\ IsPow2(m \div 2))

\* the mean sum / n is a binary fraction, which np.mean computes exactly
MeanIsDyadic(x) ==
    LET n == Len(x)
        S == SumTo(x, n)
    IN  IsPow2(n \div GCD(Max(S, 1), n)) \/ S = 0

\* np.mean can be inexact, and the residue can show in the results:
\*  - a constant series of a non-zero value ([0.3] * 10: np.mean gives
\*    0.29999999999999993, so c0 > 0);
\*  - a non-constant series whose mean is no binary fraction
\*    ([0, 1, 0, ..., 0] of length 17: acf_values[1] is -0.9999999999999999
\*    where the exact quotient is -1), so that a determinant that is 0 in
\*    exact arithmetic is a few ulps away from 0.
\* Whether the residue survives depends on the values, hence a choice; a
\* non-constant series below the minimum length of both estimators is
\* returned before any mean is taken.
MeanInexactChoices(x) ==
    IF IsConstant(x)
      THEN (IF x[1] # 0 THEN BOOLEAN ELSE {FALSE})
      ELSE (IF MeanIsDyadic(x) \/ Len(x) < Min(MinLenACF, MinLenPACF) THEN {FALSE} ELSE BOOLEAN)

FaultSites == {"none", "body", "inner_acf"}

\* max_lags of a direct call: any integer; the endpoints accept 1..200
LagRequests == -1..MaxLagsReq

\* what a call yields when an exception leaves it instead of a result
Raised == [raised |-> TRUE]

\* a body whose exception reaches the caller
Unguarded(body, on_error) == body

\* try: <body>  except Exception: return <on_error>
Guarded(body, on_error) == IF body = Raised THEN on_error ELSE body

\* a length guard that lets a series one point short of the minimum through
TooShortOffByOne(x, minimum) == Len(x) < minimum - 1

\* `if len(data) < minimum: return <empty result>`
TooShort(x, minimum) == Len(x) < minimum

(***************************************************************************)
(* calculate_autocorrelation                                               *)
(***************************************************************************)
\* n * (data - mean): the deviations from np.mean(data), scaled by n
Dev(x) ==
    LET n == Len(x)
        S == SumTo(x, n)
    IN  [t \in 1..n |-> n * x[t] - S]

RECURSIVE LagProdSum(_, _, _)
\* sum over t = 1..m of dv[t] * dv[t + lag]
LagProdSum(dv, lag, m) ==
    IF m = 0 THEN 0 ELSE dv[m] * dv[m + lag] + LagProdSum(dv, lag, m - 1)

\* np.mean((data[:-lag] - mean) * (data[lag:] - mean)): the mean of the
\* n - lag lagged products (lag = 0: the variance c0)
LagMean(x, lag) ==
    LET n == Len(x)
    IN  Rat(LagProdSum(Dev(x), lag, n - lag), n * n * (n - lag))

\* c0 > 0 as the code evaluates it
C0Positive(x, inexact) == LagMean(x, 0).num > 0 \/ inexact

\* c_lag / c0 if c0 > 0 else 0
ACFValue(x, lag, inexact) ==
    IF inexact /\ IsConstant(x)
      THEN ROne   \* every deviation is the same e # 0: c_lag = c0 = e * e
      ELSE IF C0Positive(x, inexact)
             THEN RMul(LagMean(x, lag), RInv(LagMean(x, 0)))
             ELSE RZero

\* the loop body with the `lag == 0` branch left out
ACFAtLagUniform(x, lag, inexact) == ACFValue(x, lag, inexact)

\* the loop body: 1.0 at lag 0, else c_lag / c0 if c0 > 0 else 0
ACFAtLag(x, lag, inexact) == IF lag = 0 THEN ROne ELSE ACFValue(x, lag, inexact)

\* phi[-1] of np.linalg.solve(R, r) for an R whose determinant is a few ulps
\* away from 0: the quotient of the numerator by that determinant, of
\* magnitude 1e11 and more
IllConditioned == [ill_conditioned_solve |-> TRUE]

\* se = 1.96 / sqrt(n), kept as its square 3.8416 / n = 2401 / (625 n)
SE(n) == [sqrt_of |-> Rat(2401, 625 * n)]
ConfidenceInterval(n) == << [minus |-> SE(n)], [plus |-> SE(n)] >>

\* abs(v) > 1.96 / sqrt(n), i.e. (25 |p|)^2 n > (49 q)^2 for v = p / q
AbsAboveSE(v, n) ==
    IF v = IllConditioned THEN TRUE ELSE
    LET a == 25 * Abs(v.num)
        b == 49 * v.den
    IN  IF a = 0 THEN FALSE
        ELSE LET f == b \div a
                 r == b % a
             IN  IF f > n THEN FALSE
                 ELSE IF n - f * f <= 0 THEN FALSE
                 ELSE IF r = 0 THEN TRUE
                 ELSE FracGT((n - f * f) * a, r, b + f * a, a)

\* [lag for lag, v in zip(lags[1:], values[1:]) if abs(v) > se]
RECURSIVE SignificantLags(_, _, _, _)
SignificantLags(lags, values, n, i) ==
    IF i > Len(lags) \/ i > Len(values) THEN << >>
    ELSE (IF AbsAboveSE(values[i], n) THEN << lags[i] >> ELSE << >>)
         \o SignificantLags(lags, values, n, i + 1)

\* the same filter without the [1:] slices
SignificantFromLagZero(lags, values, n) == SignificantLags(lags, values, n, 1)

\* zip(lags[1:], values[1:]): the filter starts at the second entry
SignificantAfterLagZero(lags, values, n) == SignificantLags(lags, values, n, 2)

LjungBoxMinLen == 20

RECURSIVE LjungBoxSum(_, _, _)
\* sum(acf_values[i]**2 / (n - i) for i in range(1, upto)), i counted from 0
LjungBoxSum(acf_values, n, upto) ==
    IF upto <= 1 THEN RZero
    ELSE RAdd(LjungBoxSum(acf_values, n, upto - 1),
              RMul(RMul(acf_values[upto], acf_values[upto]), Rat(1, n - (upto - 1))))

ACFEmpty ==
    [ lags |-> << >>, acf_values |-> << >>, confidence_intervals |-> << >>,
      significant_lags |-> << >>, ljung_box_statistic |-> None,
      ljung_box_p_value |-> None ]

\* the requested number of lags taken as it is
EffectiveLagsUnclamped(n, requested) == requested

\* max_lags = min(max_lags, n // 4)
EffectiveLags(n, requested) == Min(requested, n \div LagDivisor)

calculate_autocorrelation(x, requested, inexact, flt) ==
    Guarded(
    IF TooShort(x, MinLenACF) THEN ACFEmpty
    ELSE IF flt = "body" THEN Raised
    ELSE
      LET n == Len(x)
          K == EffectiveLags(n, requested)
          lags == [i \in 1..(K + 1) |-> i - 1]
          acf_values == [i \in 1..(K + 1) |-> ACFAtLag(x, lags[i], inexact)]
          lb == n > LjungBoxMinLen /\ K > 1
          Q == RMul(Rat(n * (n + 2), 1),
                    LjungBoxSum(acf_values, n, Min(K + 1, Len(acf_values))))
      IN  [ lags |-> lags,
            acf_values |-> acf_values,
            confidence_intervals |-> [i \in 1..Len(lags) |-> ConfidenceInterval(n)],
            significant_lags |-> SignificantAfterLagZero(lags, acf_values, n),
            ljung_box_statistic |-> IF lb THEN Q ELSE None,
            ljung_box_p_value |-> IF lb THEN [chi2_sf_of |-> Q, df |-> K] ELSE None ],
    ACFEmpty)

(***************************************************************************)
(* calculate_partial_autocorrelation                                       *)
(***************************************************************************)
RemoveAt(s, j) == SubSeq(s, 1, j - 1) \o SubSeq(s, j + 1, Len(s))

RECURSIVE Det(_)
RECURSIVE DetRow(_, _)
\* Laplace expansion along the first row, columns j..k
DetRow(M, j) ==
    IF j > Len(M) THEN RZero
    ELSE LET minor == [i \in 1..(Len(M) - 1) |-> RemoveAt(M[i + 1], j)]
             term == RMul(M[1][j], Det(minor))
         IN  RAdd(IF j % 2 = 1 THEN term ELSE RNeg(term), DetRow(M, j + 1))
Det(M) == IF Len(M) = 1 THEN M[1][1] ELSE DetRow(M, 1)

\* R = [[acf_values[abs(i-j)] for j in range(k)] for i in range(k)]
YuleWalkerMatrix(acf_values, k) ==
    [i \in 1..k |-> [j \in 1..k |-> acf_values[Abs(i - j) + 1]]]

\* R with its last column replaced by r = [acf_values[i] for i in range(1, k+1)]
YuleWalkerNumerator(acf_values, k) ==
    [i \in 1..k |-> [j \in 1..k |->
        IF j = k THEN acf_values[i + 1] ELSE acf_values[Abs(i - j) + 1]]]

\* phi[-1] of np.linalg.solve(R, r) when det(R) != 0, else 0.0; `rounded`:
\* the acf values carry rounding residue, so np.linalg.det(R) is not 0.0
\* where the exact determinant is 0
YuleWalkerLast(acf_values, k, rounded) ==
    LET d == Det(YuleWalkerMatrix(acf_values, k))
    IN  IF d.num # 0
          THEN RMul(Det(YuleWalkerNumerator(acf_values, k)), RInv(d))
          ELSE IF rounded THEN IllConditioned
          ELSE RZero

\* the order-1 branch reading acf_values one place too early
PACFAtOrderShifted(acf_values, k, rounded) ==
    IF k = 0 THEN ROne
    ELSE IF k = 1 THEN acf_values[1]
    ELSE YuleWalkerLast(acf_values, k, rounded)

\* pacf_values[k]: 1.0, then acf_values[1], then the Yule-Walker solution
\* (acf_values is indexed from 1 here: acf_values[k + 1] is the lag-k value)
PACFAtOrder(acf_values, k, rounded) ==
    IF k = 0 THEN ROne
    ELSE IF k = 1 THEN acf_values[2]
    ELSE YuleWalkerLast(acf_values, k, rounded)

PACFEmpty ==
    [ lags |-> << >>, pacf_values |-> << >>, confidence_intervals |-> << >>,
      significant_lags |-> << >> ]

calculate_partial_autocorrelation(x, requested, inexact, flt) ==
    Guarded(
    IF TooShort(x, MinLenPACF) THEN PACFEmpty
    ELSE IF flt = "body" THEN Raised
    ELSE
      LET n == Len(x)
          K == EffectiveLags(n, requested)
          acf_result == calculate_autocorrelation(
                            x, K, inexact, IF flt = "inner_acf" THEN "body" ELSE "none")
          acf_values == acf_result.acf_values
      IN  IF Len(acf_values) <= 1 THEN PACFEmpty
          ELSE
            LET last == Min(K, Len(acf_values) - 1)   \* k >= len(acf_values): break
                pacf_values == [i \in 1..(last + 1) |->
                                  PACFAtOrder(acf_values, i - 1, inexact /\ ~IsConstant(x))]
                lags == SubSeq([i \in 1..(K + 1) |-> i - 1], 1, Len(pacf_values))
            IN  [ lags |-> lags,
                  pacf_values |-> pacf_values,
                  confidence_intervals |-> [i \in 1..Len(lags) |-> ConfidenceInterval(n)],
                  significant_lags |-> SignificantAfterLagZero(lags, pacf_values, n) ],
    PACFEmpty)

(***************************************************************************)
(* calculate_mutual_information                                            *)
(* sklearn's mutual_info_regression is an external estimator: its value    *)
(* for a lag is an input `est[lag]` of the model, a level in 0..MaxMI      *)
(* (the estimate is never negative).                                       *)
(***************************************************************************)
MinLaggedLenMI == 10

MIEmpty ==
    [ lags |-> << >>, mi_values |-> << >>, optimal_lag |-> None, mi_threshold |-> RZero ]

MIEstimates(x, requested) ==
    IF TooShort(x, MinLenMI) THEN { << >> }
    ELSE [1..Max(EffectiveLags(Len(x), requested), 0) -> 0..MaxMI]

RECURSIVE FirstDescent(_, _)
\* the first i below its predecessor, whatever follows it
FirstDescent(mi_values, i) ==
    IF i > Len(mi_values) - 2 THEN 0
    ELSE IF mi_values[i + 1] < mi_values[i] THEN i
    ELSE FirstDescent(mi_values, i + 1)

RECURSIVE FirstLocalMinimum(_, _)
\* for i in range(2, len(mi_values) - 1): the first i (counted from 0) with
\* mi_values[i] < mi_values[i-1] and mi_values[i] < mi_values[i+1]
FirstLocalMinimum(mi_values, i) ==
    IF i > Len(mi_values) - 2 THEN 0      \* no such i
    ELSE IF mi_values[i + 1] < mi_values[i] /\ mi_values[i + 1] < mi_values[i + 2]
           THEN i
           ELSE FirstLocalMinimum(mi_values, i + 1)

RECURSIVE SumSqTo(_, _)
SumSqTo(f, k) == IF k = 0 THEN 0 ELSE f[k] * f[k] + SumSqTo(f, k - 1)

\* np.mean(v) + np.std(v), kept as the mean and the squared deviation
MeanPlusStd(v) ==
    LET L == Len(v)
    IN  [ mean |-> Rat(SumTo(v, L), L),
          std_squared |-> Rat(L * SumSqTo(v, L) - SumTo(v, L) * SumTo(v, L), L * L) ]

calculate_mutual_information(x, requested, flt, est) ==
    Guarded(
    IF TooShort(x, MinLenMI) THEN MIEmpty
    ELSE IF flt = "body" THEN Raised
    ELSE
      LET n == Len(x)
          K == EffectiveLags(n, requested)
          lags == [i \in 1..(K + 1) |-> i - 1]
          mi_values == [i \in 1..(K + 1) |->
                           IF lags[i] = 0 THEN 0
                           ELSE IF n - lags[i] < MinLaggedLenMI THEN 0
                           ELSE est[lags[i]]]
          found == IF Len(mi_values) > 3 THEN FirstLocalMinimum(mi_values, 2) ELSE 0
      IN  [ lags |-> lags,
            mi_values |-> mi_values,
            optimal_lag |-> IF found = 0 THEN None ELSE [lag |-> lags[found + 1]],
            mi_threshold |-> IF Len(mi_values) > 0 THEN MeanPlusStd(mi_values) ELSE RZero ],
    MIEmpty)

(***************************************************************************)
(* calculate_hurst_exponent                                                *)
(* R/S values and the log-log regression are real-valued: the model keeps  *)
(* which scales are used, which of them fall back to 1.0 (no window with   *)
(* S > 0), and how the fitted slope compares with 0.5 (`slope`, an input,  *)
(* when at least one genuine R/S value enters the fit).                    *)
(***************************************************************************)
RHalf == [num |-> 1, den |-> 2]

RECURSIVE FloorLog2(_)
FloorLog2(m) == IF m <= 1 THEN 0 ELSE 1 + FloorLog2(m \div 2)

RECURSIVE Pow2(_)
Pow2(i) == IF i = 0 THEN 1 ELSE 2 * Pow2(i - 1)

\* the fallback list at every length
HurstScalesFixed(n) == << 4, 8, 16 >>

\* powers of two up to n // 2
HurstScalesToHalf(n) ==
    LET max_scale == FloorLog2(n \div 2)
    IN  [i \in 1..Max(max_scale - 1, 0) |-> Pow2(i + 1)]

\* scales = [2**i for i in range(2, int(np.log2(n // 4)) + 1)], or [4, 8, 16]
HurstScales(n) ==
    LET max_scale == FloorLog2(n \div 4)
        scales == [i \in 1..Max(max_scale - 1, 0) |-> Pow2(i + 1)]
    IN  IF scales = << >> THEN << 4, 8, 16 >> ELSE scales

\* the number of leading scales with scale < n (the loop breaks at scale >= n)
RECURSIVE ScalesUsed(_, _, _)
ScalesUsed(scales, n, i) ==
    IF i > Len(scales) \/ scales[i] >= n THEN i - 1 ELSE ScalesUsed(scales, n, i + 1)

\* some window data[i*scale:(i+1)*scale] has S = np.std(window) > 0
SomeWindowVaries(x, scale) ==
    \E w \in 0..((Len(x) \div scale) - 1) :
        ~IsConstant(SubSeq(x, w * scale + 1, (w + 1) * scale))

\* np.mean(rs_window) if rs_window else 1.0
RSValue(x, scale) ==
    IF SomeWindowVaries(x, scale) THEN [mean_rs_at |-> scale] ELSE ROne

HurstDegenerate(scales, rs_values, why) ==
    [ hurst_exponent |-> RHalf, scales |-> scales, rs_values |-> rs_values,
      regression_slope |-> RZero, regression_intercept |-> RZero, r_squared |-> RZero,
      interpretation |-> why ]

SlopeChoices == {"below_half", "half", "above_half"}

calculate_hurst_exponent(x, flt, slope) ==
    Guarded(
    IF TooShort(x, MinLenHurst) THEN HurstDegenerate(<< >>, << >>, "insufficient_data")
    ELSE IF flt = "body" THEN Raised
    ELSE
      LET n == Len(x)
          all == HurstScales(n)
          used == ScalesUsed(all, n, 1)
          rs_values == [i \in 1..used |-> RSValue(x, all[i])]
          scales == SubSeq(all, 1, Len(rs_values))
          flat == \A i \in 1..Len(rs_values) : rs_values[i] = ROne
      IN  IF Len(scales) < 3 THEN HurstDegenerate(scales, rs_values, "insufficient_scales")
          ELSE IF flat
            \* log10(1.0) = 0 at every scale: linregress gives slope 0, r 0
            THEN [ hurst_exponent |-> RZero, scales |-> scales, rs_values |-> rs_values,
                   regression_slope |-> RZero, regression_intercept |-> RZero,
                   r_squared |-> RZero, interpretation |-> "mean_reverting" ]
            ELSE [ hurst_exponent |-> [slope_is |-> slope], scales |-> scales,
                   rs_values |-> rs_values,
                   regression_slope |-> [slope_is |-> slope],
                   regression_intercept |-> [intercept_of_fit |-> scales],
                   r_squared |-> [r_squared_of_fit |-> scales],
                   interpretation |-> CASE slope = "below_half" -> "mean_reverting"
                                        [] slope = "above_half" -> "trending"
                                        [] OTHER -> "random_walk" ],
    HurstDegenerate(<< >>, << >>, "error"))

(***************************************************************************)
(* calculate_stationarity_tests                                            *)
(* np.corrcoef is NaN when one of its arguments has zero variance; any     *)
(* other correlation is kept as its sign and its exact square, and the     *)
(* statistic correlation * sqrt(n) as the correlation together with n.     *)
(***************************************************************************)
NaN == [nan |-> TRUE]

Diff(x) == [i \in 1..(Len(x) - 1) |-> x[i + 1] - x[i]]

ADFCritical ==
    [k \in {"1%", "5%", "10%"} |->
        CASE k = "1%" -> Rat(-343, 100) [] k = "5%" -> Rat(-286, 100) [] OTHER -> Rat(-257, 100)]
ZeroCritical == [k \in {"1%", "5%", "10%"} |-> RZero]

StationarityEmpty ==
    [ adf_statistic |-> RZero, adf_p_value |-> ROne, adf_critical_values |-> ZeroCritical,
      adf_is_stationary |-> FALSE,
      kpss_statistic |-> None, kpss_p_value |-> None, kpss_critical_values |-> None,
      kpss_is_stationary |-> None,
      pp_statistic |-> None, pp_p_value |-> None, pp_is_stationary |-> None ]

\* sum of f[i] * g[i] for i in 1..k
SumProd(f, g, k) == SumTo([i \in 1..k |-> f[i] * g[i]], k)

Sign(v) == IF v > 0 THEN 1 ELSE IF v < 0 THEN -1 ELSE 0

\* np.corrcoef(diff_data, lagged_data)[0, 1] when both variances are > 0:
\* Sxy / sqrt(Sxx * Syy) with the centred sums scaled by the m points
ADFCorrelation(x) ==
    LET d == Diff(x)
        l == SubSeq(x, 1, Len(x) - 1)
        m == Len(d)
        Sxy == m * SumProd(d, l, m) - SumTo(d, m) * SumTo(l, m)
        Sxx == m * SumProd(d, d, m) - SumTo(d, m) * SumTo(d, m)
        Syy == m * SumProd(l, l, m) - SumTo(l, m) * SumTo(l, m)
    IN  [ sign |-> Sign(Sxy), squared |-> Rat(Sxy * Sxy, Sxx * Syy) ]

\* adf_stat = correlation * np.sqrt(n)
ADFStatistic(x) == [ correlation |-> ADFCorrelation(x), times_sqrt_of |-> Len(x) ]

\* the comparison made with the 1% critical value whatever value is passed
ADFBelowOnePercent(stat, critical) ==
    /\ stat.correlation.sign < 0
    /\ FracGT(stat.correlation.squared.num, stat.correlation.squared.den,
              343 * 343, 100 * 100 * stat.times_sqrt_of)

\* adf_stat < critical for a critical value below 0:
\* correlation < 0 and correlation^2 * n > critical^2
ADFBelow(stat, critical) ==
    /\ stat.correlation.sign < 0
    /\ FracGT(stat.correlation.squared.num, stat.correlation.squared.den,
              critical.num * critical.num,
              critical.den * critical.den * stat.times_sqrt_of)

\* np.corrcoef(diff_data, lagged_data)[0, 1] is NaN
ADFCorrelationIsNaN(x) == IsConstant(Diff(x)) \/ IsConstant(SubSeq(x, 1, Len(x) - 1))

calculate_stationarity_tests(x, flt) ==
    Guarded(
    IF TooShort(x, MinLenStationarity) THEN StationarityEmpty
    ELSE IF flt = "body" THEN Raised              \* both handlers give these values
    ELSE
      LET nan == ADFCorrelationIsNaN(x)
          stat == IF nan THEN NaN ELSE ADFStatistic(x)
      IN  [ adf_statistic |-> stat,
            adf_p_value |-> IF nan THEN NaN ELSE [two_sided_normal_p_of |-> stat],
            adf_critical_values |-> ADFCritical,
            adf_is_stationary |-> (~nan /\ ADFBelow(stat, ADFCritical["5%"])),
            kpss_statistic |-> None, kpss_p_value |-> None, kpss_critical_values |-> None,
            kpss_is_stationary |-> None,
            pp_statistic |-> None, pp_p_value |-> None, pp_is_stationary |-> None ],
    StationarityEmpty)

(***************************************************************************)
(* calculate_seasonality_analysis                                          *)
(* The periodogram peaks are an input (`peaks`); the absolute correlation  *)
(* at a canonical period is an input level in tenths (`strength[p]`)       *)
(* unless np.corrcoef is NaN there.                                        *)
(***************************************************************************)
DefaultMaxPeriods == 50
CommonPeriods == << 7, 12, 24, 30, 365 >>
StrengthLevels == {3, 5, 9}       \* 0.3, 0.5, 0.9
DominantThreshold == 3            \* 0.3, in tenths

SeasonalityEmpty ==
    [ seasonal_periods |-> << >>, seasonal_strengths |-> << >>, dominant_period |-> None,
      seasonal_decomposition |-> None, fourier_peaks |-> << >> ]

\* the period passes `if period >= n // 2: continue` and its correlation is defined
Probed(x, period) ==
    /\ ~(period >= Len(x) \div 2)
    /\ period < Len(x)
    /\ ~IsConstant(SubSeq(x, 1, Len(x) - period))
    /\ ~IsConstant(SubSeq(x, period + 1, Len(x)))

\* the shifted window repeats the window (correlation 1) or mirrors it
\* (correlation -1): abs(correlation) is 1.0 up to rounding
PerfectlyCorrelated(x, period) ==
    \/ \A i \in 1..(Len(x) - period) : x[i + period] = x[i]
    \/ \A i \in 1..(Len(x) - period) : x[i + period] = 1 - x[i]

FullStrength == 10               \* 1.0, in tenths

\* abs(np.corrcoef(...)[0, 1]) of a probed period, in tenths
StrengthChoices(x, period) ==
    IF PerfectlyCorrelated(x, period) THEN {FullStrength} ELSE StrengthLevels

ProbedPeriods(x) ==
    IF TooShort(x, MinLenSeasonality) THEN {}
    ELSE { CommonPeriods[i] : i \in { j \in 1..Len(CommonPeriods) : Probed(x, CommonPeriods[j]) } }

\* the strengths the correlations of the probed periods can take
Strengths(x) ==
    LET probed == ProbedPeriods(x)
        free == { q \in probed : StrengthChoices(x, q) = StrengthLevels }
    IN  { [q \in probed |-> IF q \in free THEN t[q] ELSE FullStrength] :
            t \in [free -> StrengthLevels] }

\* the peak lists the periodogram step can produce: a constant series has a
\* flat spectrum (no local maximum); otherwise up to one kept peak, at either
\* end of the accepted range 2 <= period <= max_periods
PeakChoices(x, max_periods) ==
    IF TooShort(x, MinLenSeasonality) \/ IsConstant(x) THEN { << >> }
    ELSE { << >> } \cup
         { << [period |-> p] >> : p \in { q \in {2, Min(max_periods, Len(x) \div 4)} : q >= 2 } }

RECURSIVE SelectPeriods(_, _)
SelectPeriods(x, i) ==
    IF i > Len(CommonPeriods) THEN << >>
    ELSE (IF Probed(x, CommonPeriods[i]) THEN << CommonPeriods[i] >> ELSE << >>)
         \o SelectPeriods(x, i + 1)

RECURSIVE ArgMax(_, _)
\* np.argmax over v[1..k]: the first index of the maximum
ArgMax(v, k) ==
    IF k = 1 THEN 1
    ELSE LET m == ArgMax(v, k - 1) IN IF v[k] > v[m] THEN k ELSE m

calculate_seasonality_analysis(x, max_periods, flt, peaks, strength) ==
    Guarded(
    IF TooShort(x, MinLenSeasonality) THEN SeasonalityEmpty
    ELSE IF flt = "body" THEN Raised
    ELSE
      LET seasonal_periods == SelectPeriods(x, 1)
          seasonal_strengths == [i \in 1..Len(seasonal_periods) |->
                                    strength[seasonal_periods[i]]]
          best == IF Len(seasonal_strengths) > 0
                    THEN ArgMax(seasonal_strengths, Len(seasonal_strengths)) ELSE 0
      IN  [ seasonal_periods |-> seasonal_periods,
            seasonal_strengths |-> [i \in 1..Len(seasonal_periods) |->
                                       Rat(seasonal_strengths[i], 10)],
            dominant_period |-> IF best > 0 /\ seasonal_strengths[best] > DominantThreshold
                                  THEN [period |-> seasonal_periods[best]] ELSE None,
            seasonal_decomposition |-> None,
            fourier_peaks |-> peaks ],
    SeasonalityEmpty)


(***************************************************************************)
(* Direct calls of the estimators (the single-estimator endpoints and any  *)
(* other caller): one call on one input                                    *)
(***************************************************************************)
\* a generator state: the seed it was created with (0: OS entropy) and how
\* many numbers were drawn from it since
RandomState(seed) == [seed |-> seed, drawn |-> 0]

\* a fresh interpreter: np.random is seeded from the OS, no estimator called
NoCalls == [first |-> None, calls |-> 0]

ProcessStart ==
    /\ np_random = RandomState(0)
    /\ oracle = None
    /\ earlier = NoCalls

RunIdle ==
    /\ pc = << >>
    /\ request = << >>
    /\ target_data = << >>
    /\ submitted = << >>
    /\ awaiting = << >>
    /\ future = << >>
    /\ queue = << >>
    /\ ts_results = << >>
    /\ response = << >>

InitEst ==
    /\ data \in InputSeries
    /\ max_lags \in LagRequests
    /\ mean_inexact \in MeanInexactChoices(data)
    /\ fault \in FaultSites
    /\ op = "none"
    /\ res = None
    /\ ProcessStart
    /\ RunIdle

Call(name, result) ==
    /\ op = "none"
    /\ op' = name
    /\ res' = result
    /\ UNCHANGED << data, max_lags, mean_inexact, fault, np_random, oracle, earlier >>
    /\ UNCHANGED runVars

CallACF == Call("acf", calculate_autocorrelation(data, max_lags, mean_inexact, fault))

CallPACF ==
    Call("pacf", calculate_partial_autocorrelation(data, max_lags, mean_inexact, fault))

CallMI ==
    \E est \in MIEstimates(data, max_lags) :
        Call("mi", calculate_mutual_information(data, max_lags, fault, est))

CallHurst ==
    \E slope \in SlopeChoices :
        Call("hurst", calculate_hurst_exponent(data, fault, slope))

CallStationarity == Call("stationarity", calculate_stationarity_tests(data, fault))

CallSeasonality ==
    /\ op = "none"
    /\ \E peaks \in PeakChoices(data, DefaultMaxPeriods) :
      \E strength \in Strengths(data) :
        Call("seasonality",
             calculate_seasonality_analysis(data, DefaultMaxPeriods, fault, peaks, strength))

NextEst ==
    \/ CallACF
    \/ CallPACF
    \/ CallMI
    \/ CallHurst
    \/ CallStationarity
    \/ CallSeasonality

Spec == InitEst /\ [][NextEst]_vars

(***************************************************************************)
(* calculate_mutual_information on its own, with more lags: the estimates  *)
(* of mutual_info_regression are inputs, so only the length of the series  *)
(* and max_lags matter                                                     *)
(***************************************************************************)
InitMI ==
    /\ data \in { ConstSeries(n, 0) : n \in (MinLenMI - 1)..MaxMILen }
    /\ max_lags \in -1..MaxMILags
    /\ mean_inexact = FALSE
    /\ fault \in {"none", "body"}
    /\ op = "none"
    /\ res = None
    /\ ProcessStart
    /\ RunIdle

NextMI == CallMI

SpecMI == InitMI /\ [][NextMI]_vars

(***************************************************************************)
(* calculate_stationarity_tests and calculate_seasonality_analysis on      *)
(* square waves: blocks of b equal values, 0 and 1 in turn (b = 1: the     *)
(* alternating series; b >= n: a constant one), and one long square wave   *)
(* of period PeriodicPeriod                                                *)
(***************************************************************************)
BlockSeries(n, b) == [i \in 1..n |-> ((i - 1) \div b) % 2]

BlockInputs ==
    { BlockSeries(n, b) : n \in (MinLenStationarity - 1)..MaxBlockLen, b \in 1..MaxBlockLen }
    \cup { BlockSeries(PeriodicLen, PeriodicPeriod \div 2) }

InitBlock ==
    /\ data \in BlockInputs
    /\ max_lags = 0
    /\ mean_inexact = FALSE
    /\ fault \in {"none", "body"}
    /\ op = "none"
    /\ res = None
    /\ ProcessStart
    /\ RunIdle

NextBlock ==
    \/ CallStationarity
    \/ CallSeasonality

SpecBlock == InitBlock /\ [][NextBlock]_vars

(***************************************************************************)
(* DataAnalysisService: detect_data_type, calculate_column_statistics and  *)
(* calculate_data_quality.  A DataFrame is its number of rows and its      *)
(* columns; a cell is missing, a number or a non-numeric string; a column  *)
(* is named by its position.                                               *)
(***************************************************************************)
NA == [na |-> TRUE]
Num(v) == [num |-> v]
Txt(s) == [text |-> s]
IsNum(cell) == "num" \in DOMAIN cell
NotNull(cell) == cell # NA

SampleCap == 1000            \* min(1000, len(clean_series))
CategoricalRatioDen == 10    \* unique_ratio < 0.1
CategoricalMaxUnique == 50
SkewMinLen == 3              \* len(numeric_series) > 3
TopValues == 5               \* value_counts().head(5)
HighMissingPct == 30         \* pct > 30
LowVolumeRows == 100         \* total_rows < 100
HighOutlierDen == 10         \* count / total_rows > 0.1
ConsistencySample == 100     \* min(100, len(...))

RLess(a, b) == a.num * b.den < b.num * a.den

RECURSIVE Pow10(_)
Pow10(d) == IF d = 0 THEN 1 ELSE 10 * Pow10(d - 1)

\* round(r, digits) for r >= 0: to the nearest, a tie to the even neighbour
Round(r, digits) ==
    LET scaled == r.num * Pow10(digits)
        lower == scaled \div r.den
        twice == 2 * (scaled % r.den)
        up == twice > r.den \/ (twice = r.den /\ lower % 2 = 1)
    IN  Rat(IF up THEN lower + 1 ELSE lower, Pow10(digits))

\* series.dropna()
dropna(series) == SelectSeq(series, NotNull)

\* pd.to_numeric(series, errors='coerce').dropna(), as plain numbers
to_numeric(series) ==
    LET kept == SelectSeq(series, IsNum)
    IN  [i \in 1..Len(kept) |-> kept[i].num]

Unique(series) == { series[i] : i \in 1..Len(series) }

\* detect_data_type; the sample of a column of at most SampleCap values is
\* the whole cleaned column in some order, and no test depends on the order.
\* No string of the columns parses as a number or as a date, and no column
\* has dtype bool
detect_data_type(series) ==
    LET clean_series == dropna(series)
        sample_size == Min(SampleCap, Len(clean_series))
        sample == SubSeq(clean_series, 1, sample_size)
    IN  IF Len(clean_series) = 0 THEN "empty"
        ELSE IF \A i \in 1..Len(sample) : IsNum(sample[i])
          THEN (IF Len(clean_series) = Len(series) THEN "integer" ELSE "float")
        ELSE IF /\ Cardinality(Unique(sample)) * CategoricalRatioDen < Len(sample)
                /\ Cardinality(Unique(sample)) < CategoricalMaxUnique
          THEN "categorical"
        ELSE "text"

IsNumericType(data_type) == data_type \in {"integer", "float"}

\* the k-th smallest of v (k from 1)
Kth(v, k) ==
    CHOOSE a \in Unique(v) :
        /\ Cardinality({ i \in 1..Len(v) : v[i] < a }) < k
        /\ Cardinality({ i \in 1..Len(v) : v[i] <= a }) >= k

\* Series.quantile(qnum / qden), linear interpolation
Quantile(v, qnum, qden) ==
    LET pos == (Len(v) - 1) * qnum
        lo == pos \div qden
        part == pos % qden
    IN  IF part = 0 THEN Rat(Kth(v, lo + 1), 1)
        ELSE RAdd(Rat(Kth(v, lo + 1), 1),
                  Rat(part * (Kth(v, lo + 2) - Kth(v, lo + 1)), qden))

\* the values outside [q1 - 1.5 * iqr, q3 + 1.5 * iqr]
IQROutliers(v) ==
    LET q1 == Quantile(v, 1, 4)
        q3 == Quantile(v, 3, 4)
        iqr == RAdd(q3, RNeg(q1))
        lower_bound == RAdd(q1, RNeg(RMul(Rat(3, 2), iqr)))
        upper_bound == RAdd(q3, RMul(Rat(3, 2), iqr))
    IN  Cardinality({ i \in 1..Len(v) :
            RLess(Rat(v[i], 1), lower_bound) \/ RLess(upper_bound, Rat(v[i], 1)) })

\* Series.std(): the sample standard deviation, NaN for a single value
SampleStd(v) ==
    LET n == Len(v)
    IN  IF n < 2 THEN NaN
        ELSE [ sqrt_of |-> Rat(n * SumProd(v, v, n) - SumTo(v, n) * SumTo(v, n),
                               n * (n - 1)),
               digits |-> 4 ]

\* value_counts().head(5): the distinct values by falling count, equal
\* counts in the order of first appearance
value_counts(series) ==
    LET n == Len(series)
        firsts == { i \in 1..n : \A j \in 1..(i - 1) : series[j] # series[i] }
        count(i) == Cardinality({ j \in 1..n : series[j] = series[i] })
        rank(i) == 1 + Cardinality({ j \in firsts :
                        \/ count(j) > count(i)
                        \/ count(j) = count(i) /\ j < i })
        at(r) == CHOOSE i \in firsts : rank(i) = r
    IN  [ r \in 1..Min(TopValues, Cardinality(firsts)) |->
            [ value |-> series[at(r)], count |-> count(at(r)) ] ]

NumericFields ==
    { "mean", "median", "std", "min", "max", "q25", "q75",
      "skewness", "kurtosis", "outliers_count", "outliers_percentage" }

NoNumericStatistics == [f \in NumericFields |-> None]

\* the stats_dict.update(...) of a numeric column with usable values
NumericStatistics(v) ==
    LET n == Len(v)
    IN  [f \in NumericFields |->
          CASE f = "mean" -> Round(Rat(SumTo(v, n), n), 4)
            [] f = "median" -> Round(Quantile(v, 1, 2), 4)
            [] f = "std" -> SampleStd(v)
            [] f = "min" -> Round(Rat(Kth(v, 1), 1), 4)
            [] f = "max" -> Round(Rat(Kth(v, n), 1), 4)
            [] f = "q25" -> Round(Quantile(v, 1, 4), 4)
            [] f = "q75" -> Round(Quantile(v, 3, 4), 4)
            [] f = "skewness" -> IF n > SkewMinLen THEN [skew_of |-> v] ELSE None
            [] f = "kurtosis" -> IF n > SkewMinLen THEN [kurtosis_of |-> v] ELSE None
            [] f = "outliers_count" -> IQROutliers(v)
            [] OTHER -> Round(Rat(IQROutliers(v) * 100, n), 2) ]

\* the numeric block with every column type let through
NumericBlockAnyType(series, data_type) ==
    LET numeric_series == to_numeric(dropna(series))
    IN  IF Len(numeric_series) > 0
          THEN NumericStatistics(numeric_series) ELSE NoNumericStatistics

\* `if data_type in ["integer", "float"]: ...`
NumericBlock(series, data_type) ==
    LET numeric_series == to_numeric(dropna(series))
    IN  IF IsNumericType(data_type) /\ Len(numeric_series) > 0
          THEN NumericStatistics(numeric_series) ELSE NoNumericStatistics

ColumnStatisticsError(column_name) ==
    [ column |-> column_name, data_type |-> "error", count |-> 0, null_count |-> 0,
      null_percentage |-> RZero, unique_count |-> 0, unique_percentage |-> RZero,
      mode |-> None, most_frequent_values |-> << >> ] @@ NoNumericStatistics

calculate_column_statistics(series, column_name, flt) ==
    Guarded(
    IF flt = "body" THEN Raised
    ELSE
      LET total_count == Len(series)
          clean_series == dropna(series)
          clean_count == Len(clean_series)
          null_count == total_count - clean_count
          data_type == detect_data_type(series)
          nunique == Cardinality(Unique(clean_series))
          stats_dict ==
            [ column |-> column_name, data_type |-> data_type, count |-> total_count,
              null_count |-> null_count,
              null_percentage |-> IF total_count > 0
                                    THEN Round(Rat(null_count * 100, total_count), 2)
                                    ELSE RZero,
              unique_count |-> nunique,
              unique_percentage |-> IF total_count > 0
                                      THEN Round(Rat(nunique * 100, total_count), 2)
                                      ELSE RZero,
              mode |-> None, most_frequent_values |-> << >> ] @@ NoNumericStatistics
          counts == value_counts(clean_series)
          frequent ==
            [ mode |-> [str |-> counts[1].value],
              most_frequent_values |->
                [ r \in 1..Len(counts) |->
                    [ value |-> [str |-> counts[r].value], count |-> counts[r].count,
                      percentage |-> Round(Rat(counts[r].count * 100, clean_count), 2) ] ] ]
      IN  IF clean_count = 0 THEN stats_dict
          ELSE frequent @@ NumericBlock(series, data_type) @@ stats_dict,
    ColumnStatisticsError(column_name))

RecHighMissing == "Considere imputacao ou remocao de colunas com muitos valores ausentes"
RecDuplicates == "Remova linhas duplicadas para melhorar a qualidade dos dados"
RecLowVolume == "Colete mais dados para melhorar a confiabilidade da analise"
RecNoNumeric == "Verifique se as colunas numericas estao no formato correto"
RecOutliers == "Investigue e trate outliers nas colunas numericas"
RecError == "Erro na analise de qualidade dos dados"

DataQualityEmpty ==
    [ total_rows |-> 0, total_columns |-> 0, missing_values |-> << >>,
      missing_percentages |-> << >>, duplicate_rows |-> 0, data_types |-> << >>,
      numeric_columns |-> << >>, categorical_columns |-> << >>, date_columns |-> << >>,
      outliers_count |-> << >>, completeness_score |-> RZero,
      consistency_score |-> RZero, overall_quality_score |-> RZero,
      recommendations |-> << >>, issues |-> << >> ]

DataQualityError ==
    [ DataQualityEmpty EXCEPT !.recommendations = << RecError >>,
                              !.issues = << [rule |-> "error"] >> ]

\* a rule that appends its issue and leaves the recommendations alone
FlagIssueOnly(report, fired, issue, recommendation) ==
    IF fired THEN [ report EXCEPT !.issues = Append(@, issue) ] ELSE report

\* `if <fired>: issues.append(<issue>); recommendations.append(<recommendation>)`
Flag(report, fired, issue, recommendation) ==
    IF fired
      THEN [ report EXCEPT !.issues = Append(@, issue),
                           !.recommendations = Append(@, recommendation) ]
      ELSE report

\* the columns 1..cols, in order, that are in kept
ColumnsWhere(cols, kept) == SelectSeq([c \in 1..cols |-> c], LAMBDA c : c \in kept)

\* the text column mixes numeric and non-numeric values:
\* 0.1 < numeric_count / len(sample) < 0.9; an empty sample raises and is
\* passed over
MixedTypes(series) ==
    LET sample == SubSeq(dropna(series), 1, Min(ConsistencySample, Len(dropna(series))))
        numeric_count == Len(SelectSeq(sample, IsNum))
    IN  /\ Len(sample) > 0
        /\ Len(sample) < 10 * numeric_count
        /\ 10 * numeric_count < 9 * Len(sample)

calculate_data_quality(df, flt) ==
    Guarded(
    LET total_rows == df.rows
        total_columns == Len(df.columns)
        total_cells == total_rows * total_columns
    IN  IF flt = "body" THEN Raised
        ELSE IF total_cells = 0 THEN DataQualityEmpty
        ELSE
          LET col(c) == df.columns[c]
              missing_values == [c \in 1..total_columns |->
                                    total_rows - Len(dropna(col(c)))]
              missing_percentages == [c \in 1..total_columns |->
                                    Round(Rat(missing_values[c] * 100, total_rows), 2)]
              total_missing == SumTo(missing_values, total_columns)
              duplicate_rows ==
                total_rows - Cardinality({ [c \in 1..total_columns |-> col(c)[i]] :
                                              i \in 1..total_rows })
              data_types == [c \in 1..total_columns |-> detect_data_type(col(c))]
              is_numeric(c) == IsNumericType(data_types[c])
              is_date(c) == data_types[c] = "datetime"
              is_categorical(c) == data_types[c] \in {"categorical", "boolean"}
              numeric_columns == ColumnsWhere(total_columns, { c \in 1..total_columns : is_numeric(c) })
              outliers_count == [c \in Unique(numeric_columns) |->
                                    IQROutliers(to_numeric(col(c)))]
              completeness == Rat((total_cells - total_missing) * 100, total_cells)
              is_mixed(c) == data_types[c] = "text" /\ MixedTypes(col(c))
              consistency_issues == Len(ColumnsWhere(total_columns, { c \in 1..total_columns : is_mixed(c) }))
              consistency == Rat((total_columns - consistency_issues) * 100, total_columns)
              overall == RAdd(RMul(completeness, Rat(6, 10)), RMul(consistency, Rat(4, 10)))
              is_high_missing(c) == RLess(Rat(HighMissingPct, 1), missing_percentages[c])
              high_missing_cols == ColumnsWhere(total_columns, { c \in 1..total_columns : is_high_missing(c) })
              is_high_outlier(c) ==
                  /\ c \in DOMAIN outliers_count
                  /\ outliers_count[c] * HighOutlierDen > total_rows
              high_outlier_cols == ColumnsWhere(total_columns, { c \in 1..total_columns : is_high_outlier(c) })
              report0 ==
                [ total_rows |-> total_rows, total_columns |-> total_columns,
                  missing_values |-> missing_values,
                  missing_percentages |-> missing_percentages,
                  duplicate_rows |-> duplicate_rows, data_types |-> data_types,
                  numeric_columns |-> numeric_columns,
                  categorical_columns |-> ColumnsWhere(total_columns, { c \in 1..total_columns : is_categorical(c) }),
                  date_columns |-> ColumnsWhere(total_columns, { c \in 1..total_columns : is_date(c) }),
                  outliers_count |-> outliers_count,
                  completeness_score |-> Round(completeness, 2),
                  consistency_score |-> Round(consistency, 2),
                  overall_quality_score |-> Round(overall, 2),
                  recommendations |-> << >>, issues |-> << >> ]
              report1 == Flag(report0, Len(high_missing_cols) > 0,
                              [rule |-> "high_missing", columns |-> high_missing_cols],
                              RecHighMissing)
              report2 == Flag(report1, duplicate_rows > 0,
                              [rule |-> "duplicates", count |-> duplicate_rows],
                              RecDuplicates)
              report3 == Flag(report2, total_rows < LowVolumeRows,
                              [rule |-> "low_volume"], RecLowVolume)
              report4 == Flag(report3, Len(numeric_columns) = 0,
                              [rule |-> "no_numeric"], RecNoNumeric)
          IN  Flag(report4, Len(high_outlier_cols) > 0,
                   [rule |-> "high_outliers", columns |-> high_outlier_cols],
                   RecOutliers),
    DataQualityError)

(***************************************************************************)
(* Direct calls of calculate_data_quality and calculate_column_statistics  *)
(* on frames of patterned columns: the first k cells missing, then the     *)
(* pattern; up to MaxRows rows, or LowVolumeRows rows                      *)
(***************************************************************************)
ColumnKinds == {"units", "tens", "text", "mixed", "spiky", "rare"}

PatternCell(kind, i) ==
    CASE kind = "units" -> Num((i - 1) % 10)
      [] kind = "tens" -> Num((i - 1) \div 10)
      [] kind = "text" -> Txt("a")
      [] kind = "mixed" -> IF i % 2 = 1 THEN Num(1) ELSE Txt("a")
      [] kind = "rare" -> IF i % 10 = 0 THEN Num(1) ELSE Num(0)
      [] OTHER -> IF i % 5 = 0 THEN Num(1) ELSE Num(0)

Column(kind, n, k) == [i \in 1..n |-> IF i <= k THEN NA ELSE PatternCell(kind, i)]

RowCounts == (0..MaxRows) \cup {LowVolumeRows}

\* the long frame has complete columns
Columns(n) ==
    { Column(kind, n, k) : kind \in ColumnKinds,
                           k \in 0..(IF n > MaxRows THEN 0 ELSE Min(n, MaxMissing)) }

RECURSIVE ColumnLists(_, _)
ColumnLists(n, cols) ==
    IF cols = 0 THEN { << >> }
    ELSE { Append(l, c) : l \in ColumnLists(n, cols - 1), c \in Columns(n) }

\* one-column frames of as many rows as the denominator of the outlier rule
BoundaryFrames ==
    { [rows |-> HighOutlierDen, columns |-> << Column(kind, HighOutlierDen, k) >>] :
        kind \in ColumnKinds, k \in 0..MaxMissing }

Frames ==
    BoundaryFrames \cup
    UNION { { [rows |-> n, columns |-> l] : l \in ColumnLists(n, cols) } :
              n \in RowCounts, cols \in 0..MaxCols }

InitQuality ==
    /\ data \in Frames
    /\ max_lags = 0
    /\ mean_inexact = FALSE
    /\ fault \in {"none", "body"}
    /\ op = "none"
    /\ res = None
    /\ ProcessStart
    /\ RunIdle

CallDataQuality == Call("data_quality", calculate_data_quality(data, fault))

CallColumnStatistics ==
    \E column_name \in 1..Len(data.columns) :
        Call("column_statistics",
             calculate_column_statistics(data.columns[column_name], column_name, fault))

NextQuality ==
    \/ CallDataQuality
    \/ CallColumnStatistics

SpecQuality == InitQuality /\ [][NextQuality]_vars

(***************************************************************************)
(* _safe_float_conversion on a raw column: numbers, missing entries,       *)
(* strings that are no number, infinite floats and the strings "inf" and   *)
(* "-inf", which pd.to_numeric reads as infinite floats                    *)
(***************************************************************************)
Inf(sign) == [inf |-> sign]

RawCells == { NA, Num(0), Num(1), Txt("a"), Txt("inf"), Txt("-inf"), Inf(1), Inf(-1) }

\* pd.to_numeric(cell, errors='coerce'): the float, NaN where there is none
Coerce(cell) ==
    IF cell = Txt("inf") THEN Inf(1)
    ELSE IF cell = Txt("-inf") THEN Inf(-1)
    ELSE IF "text" \in DOMAIN cell THEN NA
    ELSE cell

\* pd.to_numeric(series, errors='coerce').dropna().values: NaN is dropped,
\* an infinite value is not missing and stays; the array is its values
safe_float_conversion(series, flt) ==
    Guarded(
    IF flt = "body" THEN Raised
    ELSE LET numeric_series == [i \in 1..Len(series) |-> Coerce(series[i])]
         IN  [values |-> dropna(numeric_series)],
    [values |-> << >>])

InitClean ==
    /\ data \in UNION { [1..n -> RawCells] : n \in 0..MaxRawLen }
    /\ max_lags = 0
    /\ mean_inexact = FALSE
    /\ fault \in {"none", "body"}
    /\ op = "none"
    /\ res = None
    /\ ProcessStart
    /\ RunIdle

CallSafeFloatConversion == Call("safe_float_conversion", safe_float_conversion(data, fault))

NextClean == CallSafeFloatConversion

SpecClean == InitClean /\ [][NextClean]_vars

(***************************************************************************)
(* analyze_timeseries and run_complete_analysis                            *)
(*                                                                         *)
(* Each request carries the cleaned column (the result of                  *)
(* _safe_float_conversion), sample_size (0 stands for None and 0, both     *)
(* falsy) and max_lags (1..200 by the request schema).  The six estimator  *)
(* computations run on the service's ThreadPoolExecutor(max_workers=4).    *)
(***************************************************************************)
\* the calls in progress on the one service instance
Calls == DOMAIN request
Tasks == 1..6
TaskName == << "autocorrelation", "partial_autocorrelation", "mutual_information",
               "hurst_exponent", "stationarity_tests", "seasonality_analysis" >>
MILagCap == 30

RunSeries ==
    { ConstSeries(n, v) : n \in (MinLenACF - 1)..MaxRunLen, v \in Values }
    \cup { AltSeries(2 * h, v) : h \in { k \in 1..MaxRunLen :
                                          2 * k >= MinLenACF - 1 /\ 2 * k <= MaxRunLen },
                                v \in Values }

SampleSizes == {0, MinLenACF - 1, MaxRunLen}

RunRequests ==
    { [cleaned |-> x, inexact |-> b, sample_size |-> k, max_lags |-> m] :
        x \in RunSeries, b \in BOOLEAN, k \in SampleSizes, m \in {1, MaxLagsReq} }

\* target_data[indices] for the sorted index set S
Pick(x, S) ==
    [j \in 1..Cardinality(S) |->
        x[CHOOSE i \in S : Cardinality({ k \in S : k < i }) = j - 1]]

\* np.random.choice(len, sample_size, replace=False), sorted: some
\* sample_size distinct positions
Samples(x, k) == { Pick(x, S) : S \in { T \in SUBSET (1..Len(x)) : Cardinality(T) = k } }

\* if request.sample_size and request.sample_size < len(target_data)
Subsamples(r) == Len(r.cleaned) >= MinLenACF /\ r.sample_size # 0 /\ r.sample_size < Len(r.cleaned)

\* np.random.seed(42) followed by one np.random.choice
SeededAndDrawn == [seed |-> SampleSeed, drawn |-> 1]

\* the series handed to run_complete_analysis
SampledData(r) ==
    IF r.sample_size # 0 /\ r.sample_size < Len(r.cleaned)
      THEN Samples(r.cleaned, r.sample_size)
      ELSE { r.cleaned }

InitRun ==
    /\ data = << >>
    /\ max_lags = 0
    /\ mean_inexact = FALSE
    /\ fault \in {"none", "task"}
    /\ op = "none"
    /\ res = None
    /\ ProcessStart
    /\ request \in [1..NumCalls ->
                        { r \in RunRequests : r.inexact \in MeanInexactChoices(r.cleaned) }]
    /\ pc = [c \in Calls |-> "start"]
    /\ target_data = [c \in Calls |-> << >>]
    /\ submitted = [c \in Calls |-> 0]
    /\ awaiting = [c \in Calls |-> 1]
    /\ future = [c \in Calls |-> [t \in Tasks |-> [state |-> "none", outcome |-> None]]]
    /\ queue = << >>
    /\ ts_results = [c \in Calls |-> None]
    /\ response = [c \in Calls |-> None]

\* the event loop runs one coroutine at a time, and a request has no await
\* between its start and its first `await x_task`: while a call is
\* submitting, no other call takes a step on the loop (the worker threads
\* do run)
EventLoopRuns(c) == \A d \in Calls \ {c} : pc[d] # "submit"

\* the requests are numbered in the order in which the event loop starts
\* their handlers
ArrivalOrder(c) == \A d \in Calls : d < c => pc[d] # "start"

\* analyze_timeseries up to the call of run_complete_analysis: the length
\* check on the cleaned column, then the optional subsampling
CheckAndSample(c) ==
    /\ pc[c] = "start"
    /\ ArrivalOrder(c)
    /\ EventLoopRuns(c)
    /\ IF Len(request[c].cleaned) < MinLenACF
         THEN /\ pc' = [pc EXCEPT ![c] = "rejected"]
              /\ response' = [response EXCEPT ![c] = [status |-> 400]]
              /\ UNCHANGED target_data
         ELSE /\ \E d \in SampledData(request[c]) :
                    target_data' = [target_data EXCEPT ![c] = d]
              /\ pc' = [pc EXCEPT ![c] = "submit"]
              /\ UNCHANGED response
    /\ np_random' = IF Subsamples(request[c]) THEN SeededAndDrawn ELSE np_random
    /\ UNCHANGED << request, submitted, awaiting, future, queue, ts_results >>
    /\ UNCHANGED << data, max_lags, mean_inexact, fault, op, res, oracle, earlier >>

\* loop.run_in_executor(self.executor, ...): the next of the six tasks is
\* put on the executor's queue
Submit(c) ==
    /\ pc[c] = "submit"
    /\ LET t == submitted[c] + 1
       IN  /\ future' = [future EXCEPT ![c][t].state = "queued"]
           /\ queue' = Append(queue, << c, t >>)
           /\ submitted' = [submitted EXCEPT ![c] = t]
           /\ pc' = [pc EXCEPT ![c] = IF t = 6 THEN "await" ELSE "submit"]
    /\ UNCHANGED << request, target_data, awaiting, ts_results, response >>
    /\ UNCHANGED estVars

Running == { ct \in Calls \X Tasks : future[ct[1]][ct[2]].state = "running" }

\* an executor that starts a thread for every work item
StartUnbounded ==
    /\ queue # << >>
    /\ LET c == Head(queue)[1]
           t == Head(queue)[2]
       IN  future' = [future EXCEPT ![c][t].state = "running"]
    /\ queue' = Tail(queue)
    /\ UNCHANGED << pc, request, target_data, submitted, awaiting, ts_results, response >>
    /\ UNCHANGED estVars

\* a worker thread of the pool takes the oldest queued work item
Start ==
    /\ queue # << >>
    /\ Cardinality(Running) < MaxWorkers
    /\ LET c == Head(queue)[1]
           t == Head(queue)[2]
       IN  future' = [future EXCEPT ![c][t].state = "running"]
    /\ queue' = Tail(queue)
    /\ UNCHANGED << pc, request, target_data, submitted, awaiting, ts_results, response >>
    /\ UNCHANGED estVars

\* what estimator t can return on the call's series
TaskResults(c, t) ==
    LET d == target_data[c]
        m == request[c].max_lags
        b == request[c].inexact
    IN  CASE t = 1 -> { calculate_autocorrelation(d, m, b, "none") }
          [] t = 2 -> { calculate_partial_autocorrelation(d, m, b, "none") }
          [] t = 3 -> { calculate_mutual_information(d, Min(MILagCap, m), "none", est) :
                          est \in MIEstimates(d, Min(MILagCap, m)) }
          [] t = 4 -> { calculate_hurst_exponent(d, "none", s) : s \in SlopeChoices }
          [] t = 5 -> { calculate_stationarity_tests(d, "none") }
          [] OTHER -> { calculate_seasonality_analysis(d, DefaultMaxPeriods, "none", pk, st) :
                          pk \in PeakChoices(d, DefaultMaxPeriods),
                          st \in Strengths(d) }

\* a computation that hands a sub-computation to the same pool and waits for
\* it: it can only finish while a worker is free
FinishNested(c, t) ==
    /\ future[c][t].state = "running"
    /\ Cardinality(Running) < MaxWorkers
    /\ \E r \in TaskResults(c, t) \cup (IF fault = "task" THEN {Raised} ELSE {}) :
          future' = [future EXCEPT ![c][t] = [state |-> "done", outcome |-> r]]
    /\ UNCHANGED << pc, request, target_data, submitted, awaiting, queue, ts_results,
                    response >>
    /\ UNCHANGED estVars

\* the worker finishes the computation: the future gets the estimator's
\* result, or, in a run where exceptions escape the estimators
\* (fault = "task"), possibly the exception
Finish(c, t) ==
    /\ future[c][t].state = "running"
    /\ \E r \in TaskResults(c, t) \cup (IF fault = "task" THEN {Raised} ELSE {}) :
          future' = [future EXCEPT ![c][t] = [state |-> "done", outcome |-> r]]
    /\ UNCHANGED << pc, request, target_data, submitted, awaiting, queue, ts_results,
                    response >>
    /\ UNCHANGED estVars

\* the dictionaries of the `except Exception` branch of run_complete_analysis
FallbackResults ==
    [ autocorrelation |->
        [ lags |-> << >>, acf_values |-> << >>, confidence_intervals |-> << >>,
          significant_lags |-> << >> ],
      partial_autocorrelation |->
        [ lags |-> << >>, pacf_values |-> << >>, confidence_intervals |-> << >>,
          significant_lags |-> << >> ],
      mutual_information |->
        [ lags |-> << >>, mi_values |-> << >>, optimal_lag |-> None, mi_threshold |-> RZero ],
      hurst_exponent |->
        [ hurst_exponent |-> RHalf, scales |-> << >>, rs_values |-> << >>,
          interpretation |-> "error" ],
      stationarity_tests |->
        [ adf_statistic |-> RZero, adf_p_value |-> ROne, adf_critical_values |-> << >>,
          adf_is_stationary |-> FALSE ],
      seasonality_analysis |->
        [ seasonal_periods |-> << >>, seasonal_strengths |-> << >>,
          dominant_period |-> None, fourier_peaks |-> << >> ],
      computation_time_seconds |-> "elapsed",
      analysis_timestamp |-> "end_time" ]

Aggregate(c) ==
    [ autocorrelation |-> future[c][1].outcome,
      partial_autocorrelation |-> future[c][2].outcome,
      mutual_information |-> future[c][3].outcome,
      hurst_exponent |-> future[c][4].outcome,
      stationarity_tests |-> future[c][5].outcome,
      seasonality_analysis |-> future[c][6].outcome,
      computation_time_seconds |-> "elapsed",
      analysis_timestamp |-> "end_time" ]

\* `x_result = await x_task`, in submission order, inside try / except
\* Exception: a raised task ends the waiting at once with the fallback
Await(c) ==
    /\ pc[c] = "await"
    /\ EventLoopRuns(c)
    /\ LET t == awaiting[c]
       IN  /\ future[c][t].state = "done"
           /\ IF future[c][t].outcome = Raised
                THEN /\ ts_results' = [ts_results EXCEPT ![c] = FallbackResults]
                     /\ pc' = [pc EXCEPT ![c] = "returned"]
                     /\ UNCHANGED awaiting
                ELSE IF t = 6
                  THEN /\ ts_results' = [ts_results EXCEPT ![c] = Aggregate(c)]
                       /\ pc' = [pc EXCEPT ![c] = "returned"]
                       /\ UNCHANGED awaiting
                  ELSE /\ awaiting' = [awaiting EXCEPT ![c] = t + 1]
                       /\ UNCHANGED << ts_results, pc >>
    /\ UNCHANGED << request, target_data, submitted, future, queue, response >>
    /\ UNCHANGED estVars

\* the fields the response schemas require of each component
RequiredFields ==
    [ autocorrelation |-> {"lags", "acf_values", "confidence_intervals", "significant_lags",
                           "ljung_box_statistic", "ljung_box_p_value"},
      partial_autocorrelation |-> {"lags", "pacf_values", "confidence_intervals",
                                   "significant_lags"},
      mutual_information |-> {"lags", "mi_values", "optimal_lag", "mi_threshold"},
      hurst_exponent |-> {"hurst_exponent", "scales", "rs_values", "regression_slope",
                          "regression_intercept", "r_squared", "interpretation"},
      stationarity_tests |-> {"adf_statistic", "adf_p_value", "adf_critical_values",
                              "adf_is_stationary", "kpss_statistic", "kpss_p_value",
                              "kpss_critical_values", "kpss_is_stationary", "pp_statistic",
                              "pp_p_value", "pp_is_stationary"},
      seasonality_analysis |-> {"seasonal_periods", "seasonal_strengths", "dominant_period",
                                "seasonal_decomposition", "fourier_peaks"} ]

SchemaAccepts(results) ==
    \A k \in DOMAIN RequiredFields : RequiredFields[k] \subseteq DOMAIN results[k]

\* the response models are built from ts_results; a missing required field
\* is a validation error, which the endpoint turns into status 500
Respond(c) ==
    /\ pc[c] = "returned"
    /\ EventLoopRuns(c)
    /\ pc' = [pc EXCEPT ![c] = "responded"]
    /\ response' = [response EXCEPT ![c] =
                       IF SchemaAccepts(ts_results[c]) THEN [status |-> 200]
                                                       ELSE [status |-> 500]]
    /\ UNCHANGED << request, target_data, submitted, awaiting, future, queue, ts_results >>
    /\ UNCHANGED estVars

NextRun ==
    \/ \E c \in Calls : CheckAndSample(c)
    \/ \E c \in Calls : Submit(c)
    \/ Start
    \/ \E c \in Calls, t \in Tasks : Finish(c, t)
    \/ \E c \in Calls : Await(c)
    \/ \E c \in Calls : Respond(c)

SpecRun == InitRun /\ [][NextRun]_vars

(***************************************************************************)
(* Several requests at once on the module-level ts_analysis_service: every *)
(* call dispatches its six computations to the one executor.  The columns  *)
(* are the shortest the endpoint accepts and one it rejects; the accepted  *)
(* one is subsampled to a series on which every estimator returns its      *)
(* empty result at once (what the computations return plays no role in     *)
(* the scheduling).                                                        *)
(***************************************************************************)
PoolRequests ==
    { [cleaned |-> ConstSeries(n, 0), inexact |-> FALSE, sample_size |-> MinLenACF - 1,
       max_lags |-> 1] : n \in {MinLenACF - 1, MinLenACF} }

InitPool ==
    /\ data = << >>
    /\ max_lags = 0
    /\ mean_inexact = FALSE
    /\ fault = "none"
    /\ op = "none"
    /\ res = None
    /\ ProcessStart
    /\ request \in [1..NumPoolCalls -> PoolRequests]
    /\ pc = [c \in Calls |-> "start"]
    /\ target_data = [c \in Calls |-> << >>]
    /\ submitted = [c \in Calls |-> 0]
    /\ awaiting = [c \in Calls |-> 1]
    /\ future = [c \in Calls |-> [t \in Tasks |-> [state |-> "none", outcome |-> None]]]
    /\ queue = << >>
    /\ ts_results = [c \in Calls |-> None]
    /\ response = [c \in Calls |-> None]

SpecPool == InitPool /\ [][NextRun]_vars

\* fair scheduling: the worker threads keep running (a free worker takes the
\* oldest work item, a running computation comes to its end) and the event
\* loop keeps running the coroutines that are ready
Workers == Start \/ \E c \in Calls, t \in Tasks : Finish(c, t)

EventLoop ==
    \E c \in Calls : CheckAndSample(c) \/ Submit(c) \/ Await(c) \/ Respond(c)

Fairness == WF_vars(Workers) /\ WF_vars(EventLoop)

SpecPoolFair == SpecPool /\ Fairness

(***************************************************************************)
(* Repeated calls of one estimator on the same arguments, in a process     *)
(* whose global generator np.random is used by other code in between       *)
(* (analyze_timeseries reseeds it and draws from it).  The real-valued     *)
(* quantities the model does not compute (the k-NN mutual-information      *)
(* estimates, the fitted R/S slope, the periodogram peaks, the seasonal    *)
(* strengths) are functions of the arguments and, for the mutual           *)
(* information, of the generator the estimator draws its tie-breaking      *)
(* noise from: `oracle` is that function, fixed by the first call.         *)
(***************************************************************************)
MaxDraws == 1       \* numbers other code draws from np.random
MaxRepeats == 3     \* calls of the estimator on the same arguments
RepeatLen == 20     \* length of the series of the repeated calls

RepeatSeries ==
    { ConstSeries(RepeatLen, 1), AltSeries(RepeatLen, 0), BlockSeries(RepeatLen, 3),
      AltSeries(MaxLen - 1, 0) }

GeneratorStates ==
    {RandomState(MISeed)} \cup
    { [seed |-> s, drawn |-> k] : s \in {0, SampleSeed}, k \in 0..MaxDraws }

\* the generator mutual_info_regression draws from: random_state=None would
\* be the global one
MIRandomStateGlobal(global) == global

\* random_state=42: a generator of its own, freshly seeded on every call
MIRandomState(global) == RandomState(MISeed)

InitRepeat ==
    /\ data \in RepeatSeries
    /\ max_lags = 1
    /\ mean_inexact \in MeanInexactChoices(data)
    /\ fault = "none"
    /\ op = "none"
    /\ res = None
    /\ ProcessStart
    /\ RunIdle

\* the functions the first call may turn out to compute; later calls compute
\* the same functions
Oracle(choices) == IF op = "none" THEN choices ELSE {oracle}

Repeated(name, o, result) ==
    /\ op \in {"none", name}
    /\ earlier.calls < MaxRepeats
    /\ op' = name
    /\ res' = result
    /\ oracle' = o
    /\ earlier' = [first |-> IF op = "none" THEN result ELSE earlier.first,
                   calls |-> earlier.calls + 1]
    /\ UNCHANGED << data, max_lags, mean_inexact, fault, np_random >>
    /\ UNCHANGED runVars

RepeatACF ==
    Repeated("acf", None, calculate_autocorrelation(data, max_lags, mean_inexact, fault))

RepeatPACF ==
    Repeated("pacf", None,
             calculate_partial_autocorrelation(data, max_lags, mean_inexact, fault))

RepeatMI ==
    /\ op \in {"none", "mi"}
    /\ \E o \in Oracle([estimate : [GeneratorStates -> MIEstimates(data, max_lags)]]) :
        Repeated("mi", o,
                 calculate_mutual_information(data, max_lags, fault,
                                              o.estimate[MIRandomState(np_random)]))

RepeatHurst ==
    /\ op \in {"none", "hurst"}
    /\ \E o \in Oracle([slope : SlopeChoices]) :
        Repeated("hurst", o, calculate_hurst_exponent(data, fault, o.slope))

RepeatStationarity ==
    Repeated("stationarity", None, calculate_stationarity_tests(data, fault))

RepeatSeasonality ==
    /\ op \in {"none", "seasonality"}
    /\ \E o \in Oracle([peaks : PeakChoices(data, DefaultMaxPeriods),
                        strength : Strengths(data)]) :
        Repeated("seasonality", o,
                 calculate_seasonality_analysis(data, DefaultMaxPeriods, fault,
                                                o.peaks, o.strength))

\* the type inference of the column holding the series; its sample of
\* min(1000, len) values, drawn with random_state=42, is the whole column
RepeatDetectDataType ==
    Repeated("detect_data_type", None,
             [data_type |-> detect_data_type([i \in 1..Len(data) |-> Num(data[i])])])

\* other code of the process uses the global generator: analyze_timeseries
\* reseeds it and draws a sample, anything else draws from it
OtherRandomUse ==
    /\ np_random.drawn < MaxDraws \/ np_random # SeededAndDrawn
    /\ np_random' \in ({SeededAndDrawn} \cup
                       (IF np_random.drawn < MaxDraws
                          THEN {[np_random EXCEPT !.drawn = @ + 1]} ELSE {})) \ {np_random}
    /\ UNCHANGED << data, max_lags, mean_inexact, fault, op, res, oracle, earlier >>
    /\ UNCHANGED runVars

NextRepeat ==
    \/ RepeatACF
    \/ RepeatPACF
    \/ RepeatMI
    \/ RepeatHurst
    \/ RepeatStationarity
    \/ RepeatSeasonality
    \/ RepeatDetectDataType
    \/ OtherRandomUse

SpecRepeat == InitRepeat /\ [][NextRepeat]_vars

(***************************************************************************)
(* Properties of the estimators (specification Spec)                       *)
(***************************************************************************)
Below(minimum) == Len(data) < minimum
ClaimedEffectiveLags == Min(max_lags, Len(data) \div 4)
LagsUpTo(k) == [i \in 1..(k + 1) |-> i - 1]

\* C3: for every series of length >= 1 each of the six estimators returns a
\* result and never raises, and when the series is shorter than the
\* estimator's minimum (10, 10, 20, 50, 20, 20) the result is exactly that
\* estimator's empty/degenerate result.
C3_EstimatorsReturn ==
    op # "none" =>
      /\ res # Raised
      /\ (op = "acf" /\ Below(10) => res = ACFEmpty)
      /\ (op = "pacf" /\ Below(10) => res = PACFEmpty)
      /\ (op = "mi" /\ Below(20) => res = MIEmpty)
      /\ (op = "hurst" /\ Below(50) =>
            res = HurstDegenerate(<< >>, << >>, "insufficient_data"))
      /\ (op = "stationarity" /\ Below(20) => res = StationarityEmpty)
      /\ (op = "seasonality" /\ Below(20) => res = SeasonalityEmpty)

\* an exception inside the Hurst computation on a series of sufficient
\* length is turned into the "error" result
C3_Witness ==
    /\ op = "hurst"
    /\ Len(data) >= 50
    /\ fault = "body"
    /\ res = HurstDegenerate(<< >>, << >>, "error")

\* c(k) / c(0) with c(k) = (1/n) * sum of the n - k lagged products
BiasedACF(x, k) ==
    Rat(LagProdSum(Dev(x), k, Len(x) - k), LagProdSum(Dev(x), 0, Len(x)))

\* C5: for a series of length n >= 10 and every lag 1 <= k <=
\* max_lags_effective, acf_values[k] is the biased estimate c(k) / c(0) whose
\* lagged products are divided by n (stated for non-constant series, where
\* c(0) > 0).
C5_BiasedEstimator ==
    (op = "acf" /\ Len(data) >= 10 /\ fault = "none" /\ ~IsConstant(data)) =>
        \A k \in 1..ClaimedEffectiveLags :
            res.acf_values[k + 1] = BiasedACF(data, k)

\* C6: for every series passed to calculate_autocorrelation, whatever its
\* length and the requested max_lags, the returned ACF value at lag 0 is 1.0
\* (looked at on calls with max_lags >= 0 in which no exception occurs).
C6_LagZeroIsOne_Original ==
    (op = "acf" /\ max_lags >= 0 /\ fault = "none") =>
        Len(res.acf_values) >= 1 /\ res.acf_values[1] = ROne

\* C6 (amended): when the series has at least 10 points, max_lags >= 0 and no
\* exception occurs, the ACF value at lag 0 is 1.0; in every other case
\* acf_values is empty and there is no lag-0 value.
C6_LagZeroIsOne ==
    op = "acf" =>
        IF Len(data) >= 10 /\ max_lags >= 0 /\ fault # "body"
          THEN Len(res.acf_values) >= 1 /\ res.acf_values[1] = ROne
          ELSE res.acf_values = << >>

\* a constant series with an exactly representable mean: c0 = 0, yet lag 0 is 1.0
C6_Witness ==
    /\ op = "acf"
    /\ Len(data) >= 10
    /\ IsConstant(data)
    /\ ~mean_inexact
    /\ fault = "none"
    /\ max_lags >= 1
    /\ res.acf_values[1] = ROne
    /\ res.acf_values[2] = RZero

\* C7: for every series and every requested max_lags,
\* len(acf_values) = len(lags) = max_lags_effective + 1 with
\* max_lags_effective = min(max_lags, floor(n / 4)), and lags is
\* 0, 1, ..., max_lags_effective (looked at on calls with max_lags >= 0 in
\* which no exception occurs).
C7_LagCount_Original ==
    (op = "acf" /\ max_lags >= 0 /\ fault = "none") =>
        /\ Len(res.acf_values) = ClaimedEffectiveLags + 1
        /\ Len(res.lags) = ClaimedEffectiveLags + 1
        /\ res.lags = LagsUpTo(ClaimedEffectiveLags)

\* C7 (amended): the lag count max_lags_effective + 1 and the lags
\* 0..max_lags_effective hold when the series has at least 10 points,
\* max_lags >= 0 and no exception occurs; otherwise lags and acf_values are
\* both empty.
C7_LagCount ==
    op = "acf" =>
        IF Len(data) >= 10 /\ max_lags >= 0 /\ fault # "body"
          THEN /\ Len(res.acf_values) = ClaimedEffectiveLags + 1
               /\ Len(res.lags) = ClaimedEffectiveLags + 1
               /\ res.lags = LagsUpTo(ClaimedEffectiveLags)
          ELSE res.lags = << >> /\ res.acf_values = << >>

\* the request exceeds floor(n / 4) and is clamped
C7_Witness ==
    /\ op = "acf"
    /\ Len(data) >= 10
    /\ fault = "none"
    /\ max_lags > Len(data) \div 4
    /\ Len(res.lags) = Len(data) \div 4 + 1
    /\ Len(res.acf_values) = Len(res.lags)

ResultValues == IF op = "acf" THEN res.acf_values ELSE res.pacf_values
SeqRange(q) == { q[i] : i \in 1..Len(q) }

\* C8: every result of calculate_autocorrelation and of
\* calculate_partial_autocorrelation, on every return path, has
\* len(values) = len(lags) = len(confidence_intervals), and significant_lags
\* lists only returned lags and never lag 0.
C8_ShapeInvariant ==
    op \in {"acf", "pacf"} =>
        /\ Len(ResultValues) = Len(res.lags)
        /\ Len(res.lags) = Len(res.confidence_intervals)
        /\ SeqRange(res.significant_lags) \subseteq SeqRange(res.lags) \ {0}

\* a PACF result with a singular Yule-Walker order (value 0.0) next to a
\* significant lag 1
C8_Witness ==
    /\ op = "pacf"
    /\ fault = "none"
    /\ Len(res.pacf_values) >= 3
    /\ res.pacf_values[3] = RZero
    /\ res.significant_lags = << 1 >>
    /\ Len(res.confidence_intervals) = Len(res.pacf_values)

\* C9: for a constant series of length >= 10 calculate_autocorrelation
\* returns acf_values = [1.0, 0, ..., 0] and reports no significant lag.
C9_ConstantSeries ==
    (op = "acf" /\ IsConstant(data) /\ Len(data) >= 10 /\ fault = "none"
       /\ max_lags >= 0) =>
        /\ res.acf_values =
             [i \in 1..(ClaimedEffectiveLags + 1) |-> IF i = 1 THEN ROne ELSE RZero]
        /\ res.significant_lags = << >>

\* C10: for a series of length n >= 10 and max_lags >= 1 (and no exception
\* inside the computation) calculate_partial_autocorrelation returns
\* pacf_values[0] = 1.0 and pacf_values[1] = the acf_values[1] that
\* calculate_autocorrelation returns for the same arguments, with the lags
\* 0..max_lags_effective and the confidence band of that ACF result.
C10_PACFMatchesACF ==
    (op = "pacf" /\ Len(data) >= 10 /\ max_lags >= 1 /\ fault = "none") =>
        LET acf_result == calculate_autocorrelation(data, max_lags, mean_inexact, "none")
        IN  /\ Len(res.pacf_values) >= 2
            /\ res.pacf_values[1] = ROne
            /\ res.pacf_values[2] = acf_result.acf_values[2]
            /\ res.lags = LagsUpTo(ClaimedEffectiveLags)
            /\ res.lags = acf_result.lags
            /\ res.confidence_intervals = acf_result.confidence_intervals

\* a series whose lag-1 autocorrelation is neither 0 nor 1
C10_Witness ==
    /\ op = "pacf"
    /\ Len(data) >= 10
    /\ max_lags >= 2
    /\ fault = "none"
    /\ res.pacf_values[2] \notin {RZero, ROne}
    /\ res.pacf_values[2] =
         calculate_autocorrelation(data, max_lags, mean_inexact, "none").acf_values[2]
    /\ Len(res.lags) = 3

\* C11: when the Yule-Walker matrix of an order k >= 2 is singular
\* (determinant 0), PACF(k) is 0.0 for that order, and the result still has
\* max_lags_effective + 1 values.
C11_SingularOrderIsZero ==
    (op = "pacf" /\ Len(data) >= 10 /\ max_lags >= 1 /\ fault = "none") =>
        LET acf_values ==
              calculate_autocorrelation(data, max_lags, mean_inexact, "none").acf_values
        IN  /\ Len(res.pacf_values) = ClaimedEffectiveLags + 1
            /\ \A k \in 2..ClaimedEffectiveLags :
                   Det(YuleWalkerMatrix(acf_values, k)).num = 0 =>
                       res.pacf_values[k + 1] = RZero

\* the lags k >= 2 with a successor among the returned lags that are strict
\* local minima of the MI curve (mi_values[k + 1] is MI(k))
LocalMinimumLags(mi_values) ==
    { k \in 2..(Len(mi_values) - 2) :
        mi_values[k + 1] < mi_values[k] /\ mi_values[k + 1] < mi_values[k + 2] }

\* C12: MI(0) is 0, and optimal_lag is the smallest lag k >= 2 that is a
\* strict local minimum of the MI curve (MI(k) < MI(k-1) and
\* MI(k) < MI(k+1)); it is None exactly when no returned lag is one.
C12_OptimalLag ==
    op = "mi" =>
        /\ (res.mi_values # << >> => res.mi_values[1] = 0)
        /\ LET mins == LocalMinimumLags(res.mi_values)
           IN  IF mins = {}
                 THEN res.optimal_lag = None
                 ELSE res.optimal_lag = [lag |-> CHOOSE k \in mins : \A j \in mins : k <= j]

\* two local minima, at lags 2 and 4: the first one is reported
C12_Witness ==
    /\ op = "mi"
    /\ fault = "none"
    /\ LocalMinimumLags(res.mi_values) = {2, 4}
    /\ res.optimal_lag = [lag |-> 2]

\* C13: in every degenerate case (a series shorter than 50, fewer than 3
\* usable scales, a series whose windows all have zero variance)
\* calculate_hurst_exponent returns hurst_exponent = 0.5 with the
\* interpretation insufficient_data or insufficient_scales, never a
\* mean_reverting / random_walk / trending classification.
C13_DegenerateHurst ==
    (op = "hurst" /\ fault = "none"
       /\ (Below(50) \/ Len(res.scales) < 3 \/ IsConstant(data))) =>
        /\ res.hurst_exponent = RHalf
        /\ res.interpretation \in {"insufficient_data", "insufficient_scales"}

\* C14: for a constant series of length >= 20 the stationarity result has
\* finite numbers only (never NaN) with adf_is_stationary False, and the
\* seasonality result has dominant_period None.
C14_ConstantSeriesNeutral ==
    (IsConstant(data) /\ Len(data) >= 20 /\ fault = "none") =>
        /\ op = "stationarity" =>
              /\ res.adf_statistic # NaN
              /\ res.adf_p_value # NaN
              /\ res.adf_is_stationary = FALSE
        /\ op = "seasonality" =>
              /\ res.dominant_period = None
              /\ \A i \in 1..Len(res.seasonal_strengths) : res.seasonal_strengths[i] # NaN

\* adf_statistic < critical, read off the result alone
StatisticBelow(stat, critical) ==
    IF stat = NaN THEN FALSE
    ELSE IF "num" \in DOMAIN stat
      THEN stat.num * critical.den < critical.num * stat.den
      ELSE /\ critical.num < 0
           /\ stat.correlation.sign < 0
           /\ FracGT(stat.correlation.squared.num, stat.correlation.squared.den,
                     critical.num * critical.num,
                     critical.den * critical.den * stat.times_sqrt_of)

\* C15: in every result of calculate_stationarity_tests adf_is_stationary
\* is true iff adf_statistic is strictly below adf_critical_values['5%']; on
\* the computed path the critical values are 1%: -3.43, 5%: -2.86,
\* 10%: -2.57 whatever the input, and the kpss_* and pp_* fields are None.
C15_StationaryIffBelow5Percent ==
    op = "stationarity" =>
        /\ res.adf_is_stationary =
             StatisticBelow(res.adf_statistic, res.adf_critical_values["5%"])
        /\ (Len(data) >= 20 /\ fault = "none") =>
               res.adf_critical_values =
                   [k \in {"1%", "5%", "10%"} |->
                       CASE k = "1%" -> Rat(-343, 100)
                         [] k = "5%" -> Rat(-286, 100)
                         [] OTHER -> Rat(-257, 100)]
        /\ \A f \in {"kpss_statistic", "kpss_p_value", "kpss_critical_values",
                     "kpss_is_stationary", "pp_statistic", "pp_p_value",
                     "pp_is_stationary"} : res[f] = None

\* a statistic between the 1% and the 5% critical value: stationary
C15_Witness ==
    /\ op = "stationarity"
    /\ fault = "none"
    /\ res.adf_is_stationary = TRUE
    /\ ~StatisticBelow(res.adf_statistic, res.adf_critical_values["1%"])

\* np.corrcoef of the series with itself shifted by p is a number
CorrelationDefined(x, p) ==
    /\ p < Len(x)
    /\ ~IsConstant(SubSeq(x, 1, Len(x) - p))
    /\ ~IsConstant(SubSeq(x, p + 1, Len(x)))

\* C16: for a series of length n >= 20 a canonical period p is probed, and
\* listed in seasonal_periods when its correlation is defined, if and only
\* if 2 * p < n.
C16_ProbedIffShorterThanHalf ==
    (op = "seasonality" /\ fault = "none" /\ Len(data) >= 20) =>
        \A i \in 1..Len(CommonPeriods) :
            LET p == CommonPeriods[i]
            IN  (p \in SeqRange(res.seasonal_periods))
                    <=> (2 * p < Len(data) /\ CorrelationDefined(data, p))

\* a series is perfectly periodic with period p
IsPeriodic(x, p) == \A i \in 1..(Len(x) - p) : x[i + p] = x[i]

\* C17: for a perfectly periodic series of period p (n = PeriodicLen,
\* p = PeriodicPeriod) the dominant_period of calculate_seasonality_analysis
\* lies in {p - 1, p, p + 1}.
C17_DominantPeriodIsThePeriod ==
    ( /\ op = "seasonality"
      /\ fault = "none"
      /\ Len(data) = PeriodicLen
      /\ IsPeriodic(data, PeriodicPeriod)
      /\ ~IsConstant(data) ) =>
        /\ res.dominant_period # None
        /\ res.dominant_period.period \in (PeriodicPeriod - 1)..(PeriodicPeriod + 1)

\* C27: for a series of n >= 10 points every returned autocorrelation
\* value acf_values[k] lies in [-1, 1].
C27_ACFWithinUnitInterval ==
    (op = "acf" /\ Len(data) >= MinLenACF) =>
        \A i \in 1..Len(res.acf_values) :
            /\ ~RLess(ROne, res.acf_values[i])
            /\ ~RLess(res.acf_values[i], RNeg(ROne))

\* the powers of two s with 4 <= s <= m, in increasing order
IsScale(s) == s >= 4 /\ IsPow2(s)
PowersOfTwoUpTo(m) == SelectSeq([i \in 1..m |-> i], IsScale)

RegressionRan == res.interpretation \in {"mean_reverting", "trending", "random_walk"}

\* C26: for a series of n >= 50 points the Hurst scales are exactly the
\* powers of two s with 4 <= s <= floor(n / 4), in increasing order; every
\* scale has floor(n / s) >= 4 windows; the regression runs only with at
\* least 3 scales; scales and rs_values have the same length in every
\* result.
C26_HurstScales ==
    op = "hurst" =>
        /\ Len(res.scales) = Len(res.rs_values)
        /\ RegressionRan => Len(res.scales) >= 3
        /\ (Len(data) >= MinLenHurst /\ fault # "body") =>
              /\ res.scales = PowersOfTwoUpTo(Len(data) \div 4)
              /\ \A i \in 1..Len(res.scales) : Len(data) \div res.scales[i] >= 4

\* a varying series long enough for three scales, fitted
C26_Witness ==
    /\ op = "hurst"
    /\ Len(data) >= 64
    /\ ~IsConstant(data)
    /\ res.scales = << 4, 8, 16 >>
    /\ res.interpretation = "trending"

\* C28: for 50 <= n <= 63 the Hurst estimator finds only the scales 4 and 8
\* and returns 0.5 with 'insufficient_scales'; a regression is fitted only
\* for n >= 64.
C28_RegressionFrom64 ==
    (op = "hurst" /\ fault # "body") =>
        /\ (Len(data) >= MinLenHurst /\ Len(data) <= 63) =>
              /\ res.scales = << 4, 8 >>
              /\ res.hurst_exponent = RHalf
              /\ res.interpretation = "insufficient_scales"
        /\ RegressionRan <=> Len(data) >= 64

\* both sides of the border: a varying series of 62 points without a fit
C28_Witness ==
    /\ op = "hurst"
    /\ fault = "none"
    /\ Len(data) = 62
    /\ ~IsConstant(data)
    /\ res.rs_values # << ROne, ROne >>
    /\ res.interpretation = "insufficient_scales"

(***************************************************************************)
(* Properties of the data-quality report (specification SpecQuality)       *)
(***************************************************************************)
TotalCells == data.rows * Len(data.columns)
MissingCells ==
    Cardinality({ << c, i >> \in (1..Len(data.columns)) \X (1..data.rows) :
                    data.columns[c][i] = NA })

\* C18: for a dataset of N > 0 cells of which k are missing, the
\* completeness_score of calculate_data_quality is exactly 100 * (N - k) / N,
\* and 100.0 when k = 0.
C18_CompletenessExact ==
    (op = "data_quality" /\ fault = "none" /\ TotalCells > 0) =>
        /\ res.completeness_score = Rat(100 * (TotalCells - MissingCells), TotalCells)
        /\ MissingCells = 0 => res.completeness_score = Rat(100, 1)

UsableNumbers(series) == Cardinality({ i \in 1..Len(series) : "num" \in DOMAIN series[i] })

\* C19: in every result of calculate_column_statistics, when the inferred
\* type of the column is neither integer nor float, or the column has no
\* usable numeric value, mean, median, std, min, max, q25, q75, skewness,
\* kurtosis, outliers_count and outliers_percentage are all None.
C19_NonNumericHasNoStatistics ==
    ( /\ op = "column_statistics"
      /\ \/ res.data_type \notin {"integer", "float"}
         \/ UsableNumbers(data.columns[res.column]) = 0 ) =>
        \A f \in { "mean", "median", "std", "min", "max", "q25", "q75", "skewness",
                   "kurtosis", "outliers_count", "outliers_percentage" } :
            res[f] = None

\* a text column that holds numbers among its strings
C19_Witness ==
    /\ op = "column_statistics"
    /\ fault = "none"
    /\ res.data_type = "text"
    /\ UsableNumbers(data.columns[res.column]) > 0
    /\ res.mean = None
    /\ res.mode # None

\* the rules in their order, each with whether it fired for the report and
\* its recommendation
RuleTable ==
    << [ rule |-> "high_missing", rec |-> RecHighMissing,
         fired |-> \E c \in DOMAIN res.missing_percentages :
                       res.missing_percentages[c].num > 30 * res.missing_percentages[c].den ],
       [ rule |-> "duplicates", rec |-> RecDuplicates,
         fired |-> Cardinality({ [c \in 1..Len(data.columns) |-> data.columns[c][i]] :
                                    i \in 1..data.rows }) < data.rows ],
       [ rule |-> "low_volume", rec |-> RecLowVolume, fired |-> data.rows < 100 ],
       [ rule |-> "no_numeric", rec |-> RecNoNumeric,
         fired |-> res.numeric_columns = << >> ],
       [ rule |-> "high_outliers", rec |-> RecOutliers,
         fired |-> \E c \in DOMAIN res.outliers_count :
                       10 * res.outliers_count[c] > data.rows ] >>

IsFired(entry) == entry.fired

\* C20: in every report of calculate_data_quality (normal, empty-dataset and
\* error paths) issues and recommendations have the same length; on the
\* normal path they are, in the fixed rule order, one issue and the one fixed
\* recommendation of each rule that fired, and nothing else.
C20_IssuesPairedWithRecommendations ==
    op = "data_quality" =>
        /\ Len(res.issues) = Len(res.recommendations)
        /\ (fault = "none" /\ TotalCells > 0) =>
             LET fired == SelectSeq(RuleTable, IsFired)
             IN  /\ Len(res.issues) = Len(fired)
                 /\ \A i \in 1..Len(fired) :
                        /\ res.issues[i].rule = fired[i].rule
                        /\ res.recommendations[i] = fired[i].rec

\* a frame of LowVolumeRows rows: the volume rule is silent, the duplicate
\* and the outlier rule speak
C20_Witness ==
    /\ op = "data_quality"
    /\ fault = "none"
    /\ data.rows = 100
    /\ Len(res.issues) = 2
    /\ res.issues[1].rule = "duplicates"
    /\ res.issues[2].rule = "high_outliers"
    /\ res.recommendations = << RecDuplicates, RecOutliers >>

\* the columns named by the high-outlier issue of the report
HighOutlierColumns ==
    UNION { { res.issues[i].columns[j] : j \in 1..Len(res.issues[i].columns) } :
              i \in { k \in 1..Len(res.issues) : res.issues[k].rule = "high_outliers" } }

\* C25: calculate_data_quality flags a numeric column as a high-outlier
\* column if and only if more than 10% of its usable (non-null numeric)
\* values are IQR outliers, that is exactly when the outliers_percentage
\* that calculate_column_statistics reports for the column exceeds 10.
C25_FlaggedIffOverTenPercent ==
    (op = "data_quality" /\ fault = "none" /\ TotalCells > 0) =>
        \A c \in 1..Len(data.columns) :
            IsNumericType(detect_data_type(data.columns[c])) =>
                LET usable == to_numeric(dropna(data.columns[c]))
                    statistics == calculate_column_statistics(data.columns[c], c, "none")
                IN  /\ c \in HighOutlierColumns
                        <=> IQROutliers(usable) * 10 > Len(usable)
                    /\ c \in HighOutlierColumns
                        <=> RLess(Rat(10, 1), statistics.outliers_percentage)

(***************************************************************************)
(* Properties of _safe_float_conversion (specification SpecClean)          *)
(***************************************************************************)
\* C21: the sequence returned by _safe_float_conversion holds no NaN and no
\* +/-Infinity, whatever the column holds.
C21_CleanedIsFinite ==
    op = "safe_float_conversion" =>
        \A i \in 1..Len(res.values) :
            res.values[i] # NA /\ "inf" \notin DOMAIN res.values[i]

Returned(c) == ts_results[c] # None

\* C1: when one of the six dispatched computations raises, only that
\* component's entry of the aggregate is replaced; the entry of every
\* computation that produced a result is that result.
C1_OnlyFailedComponentReplaced ==
    \A c \in Calls :
        Returned(c) =>
            \A t \in Tasks :
                (future[c][t].state = "done" /\ future[c][t].outcome # Raised) =>
                    ts_results[c][TaskName[t]] = future[c][t].outcome

\* C2: every aggregate returned by run_complete_analysis has all top-level
\* keys and each component entry carries the full field set of that
\* estimator's normal result, the 1% / 5% / 10% critical-value labels
\* included.
C2_AggregateComplete ==
    \A c \in Calls :
        Returned(c) =>
            /\ DOMAIN ts_results[c] = DOMAIN FallbackResults
            /\ DOMAIN ts_results[c].autocorrelation = DOMAIN ACFEmpty
            /\ DOMAIN ts_results[c].partial_autocorrelation = DOMAIN PACFEmpty
            /\ DOMAIN ts_results[c].mutual_information = DOMAIN MIEmpty
            /\ DOMAIN ts_results[c].hurst_exponent =
                 DOMAIN HurstDegenerate(<< >>, << >>, "error")
            /\ DOMAIN ts_results[c].stationarity_tests = DOMAIN StationarityEmpty
            /\ DOMAIN ts_results[c].stationarity_tests.adf_critical_values =
                 {"1%", "5%", "10%"}
            /\ DOMAIN ts_results[c].seasonality_analysis = DOMAIN SeasonalityEmpty

\* C4: analyze_timeseries rejects every request whose cleaned series is
\* shorter than 50, so the Hurst computation is never dispatched on fewer
\* than 50 points.
C4_RejectsBelowStrictestMinimum ==
    \A c \in Calls :
        /\ (pc[c] # "start" /\ Len(request[c].cleaned) < 50) =>
               pc[c] = "rejected" /\ response[c] = [status |-> 400]
        /\ future[c][4].state # "none" => Len(target_data[c]) >= 50

\* C23: run_complete_analysis returns its aggregate only after all six
\* computations it dispatched have finished: when the aggregate is returned
\* (on any path) none of the call's computations is still queued or running.
C23_ReturnsAfterAllFinished ==
    \A c \in Calls :
        Returned(c) => \A t \in Tasks : future[c][t].state = "done"

\* C29: the series analyze_timeseries hands to run_complete_analysis always
\* has at least 10 points: the minimum-length check made on the cleaned
\* series still holds after the optional subsampling, for every sample_size
\* the request schema accepts.
C29_SampledSeriesLongEnough ==
    \A c \in Calls :
        pc[c] \in {"submit", "await", "returned", "responded"} =>
            Len(target_data[c]) >= MinLenACF

(***************************************************************************)
(* Properties of the shared worker pool (specification SpecPool)           *)
(***************************************************************************)
Queued == { queue[i] : i \in 1..Len(queue) }

\* C24: at every moment at most 4 computations submitted through the one
\* service instance are executing, whatever the number of concurrent
\* run_complete_analysis calls; every other submitted computation is
\* waiting in the pool's queue (exactly once) or has finished: none is
\* dropped.
C24_AtMostFourExecuting ==
    /\ Cardinality(Running) <= MaxWorkers
    /\ Cardinality(Queued) = Len(queue)
    /\ \A c \in Calls, t \in Tasks :
          /\ t <= submitted[c] <=> future[c][t].state \in {"queued", "running", "done"}
          /\ future[c][t].state = "queued" <=> << c, t >> \in Queued

\* all four workers are busy, with computations of every concurrent call,
\* and further submitted computations wait in the queue
C24_Witness ==
    /\ Cardinality(Calls) > 1
    /\ Cardinality(Running) = MaxWorkers
    /\ \A c \in Calls : \E t \in Tasks : << c, t >> \in Running
    /\ Len(queue) >= 2

\* C30: under fair scheduling every call of run_complete_analysis
\* eventually returns an aggregate, however many calls share the 4-worker
\* pool: no computation waits on another one, so the calls cannot deadlock
\* even when all workers are busy.
C30_EveryCallReturns ==
    \A c \in 1..NumPoolCalls : (pc[c] = "submit") ~> Returned(c)

\* one call has returned its aggregate while all workers are busy with the
\* computations of another call, which is still waiting
C30_Witness ==
    /\ \E c \in Calls : Returned(c) /\ ts_results[c] = Aggregate(c)
    /\ \E c \in Calls : pc[c] = "await" /\ Len(queue) > 0
    /\ Cardinality(Running) = MaxWorkers

====
